---- MODULE Spec2Model ----
(***************************************************************************)
(* A model of the block bus of github.com/db47h/mirv (package mem): the    *)
(* routing table of mem.Bus (the sorted block slice b.b and the preferred  *)
(* block b.p), the RAM regions created by NewRAM, the void region          *)
(* NoMemory, and the sized accesses Bus.ReadW / Bus.WriteW.                *)
(*                                                                         *)
(* Guest addresses are mirv.Address (an unsigned machine word); the model  *)
(* keeps the modular arithmetic with the word scaled down to 0..AddrMax.   *)
(* A W-bit value is the sequence of its W/8 bytes, least significant byte  *)
(* first: v[k+1] is byte(v >> (8*k)).                                      *)
(***************************************************************************)
EXTENDS Integers, Sequences, FiniteSets, TLC

\* ------------------------------------------------------------------ bounds

\* The highest guest address, ^mirv.Address(0), scaled down.
AddrMax == 11

\* The most blocks (preferred block included) a behaviour maps.
MaxBlocks == 4

\* The most successful sized writes of a behaviour of SpecRW.
MaxWrites == 1

\* The most Write calls on the Writer of a behaviour of SpecWriter.
MaxWriterCalls == 2

\* The most region calls a behaviour of SpecLog records.
MaxLog == 2

\* The most cycles a behaviour of SpecZPU steps the ZPU.
MaxSteps == 2

\* The most alloc and Load calls of a behaviour of SpecLoad.
MaxLoads == 1

\* The most Remap calls of a behaviour of SpecRemap that change the bus.
MaxRemaps == 1

\* The number of values of a byte (256), scaled down: a byte is 0 .. ByteMod - 1.
ByteMod == 9

AddrMod == AddrMax + 1

Address == 0 .. AddrMax

\* Modular arithmetic of mirv.Address.
AddrAdd(x, y) == (x + y) % AddrMod

AddrSub(x, y) == (x - y + AddrMod) % AddrMod

\* The access widths of the generated ReadW/WriteW methods, in bytes.
Widths == {1, 2, 4, 8}

\* The sys.Bus.Map calls made on one paged bus.
MaxMaps == 2

\* The largest cycle count Step is called with.
MaxCycles == 3

\* -------------------------------------------------------------- regions

\* The void region NoMemory{} (the m of nilMemory).
NoMem == 0

\* A nil *block (the zero value of Bus.p) is a block whose m is Null.
Null == -1

\* The regions a behaviour can map: instances made by NewRAM(size, order),
\* the fourth wrapped as memory-mapped IO, the fifth of size 0.
RegionSize == <<8, 8, 3, 2, 0>>

RegionOrder == <<"LittleEndian", "BigEndian", "BigEndian", "LittleEndian", "LittleEndian">>

RegionType == <<"MemRAM", "MemRAM", "MemRAM", "MemIO", "MemRAM">>

Regions == 1 .. Len(RegionSize)

\* Interface.Size
Size(m) == IF m = NoMem THEN 0 ELSE RegionSize[m]

\* Interface.Type
Type(m) == IF m = NoMem THEN "MemNone" ELSE RegionType[m]

\* Interface.ByteOrder
ByteOrder(m) == IF m = NoMem THEN "None" ELSE RegionOrder[m]

\* NewRAM: a zeroed byte slice of the region's size, for every region.
NewRAM == [m \in Regions |-> [i \in 1 .. RegionSize[m] |-> 0]]

\* ---------------------------------------------------------------- errors

NoErr == [kind |-> "nil", op |-> "", sz |-> 0, addr |-> 0]

errPage == [kind |-> "errPage", op |-> "", sz |-> 0, addr |-> 0]

errOverlap == [kind |-> "errOverlap", op |-> "", sz |-> 0, addr |-> 0]

errOverflow == [kind |-> "errOverflow", op |-> "", sz |-> 0, addr |-> 0]

errNoMemoryMap == [kind |-> "errNoMemoryMap", op |-> "", sz |-> 0, addr |-> 0]

\* A run-time panic of the Go program (slice bounds out of range).
Panic == [kind |-> "panic", op |-> "", sz |-> 0, addr |-> 0]

errBus(op, size, addr) == [kind |-> "ErrBus", op |-> op, sz |-> size, addr |-> addr]

\* ------------------------------------------------------- byte order, RAM
\* A W-bit value is a natural number below ByteMod^(W/8).

\* byte(v >> (8*k))
ByteOf(v, k) == (v \div (ByteMod ^ k)) % ByteMod

\* A mutant of PutUint: the least significant byte first for either order.
PutUintAlwaysLittle(order, v, n) == [j \in 1 .. n |-> ByteOf(v, j - 1)]

\* binary.LittleEndian.PutUintW / binary.BigEndian.PutUintW: the n bytes of v.
PutUint(order, v, n) ==
    [j \in 1 .. n |->
        IF order = "LittleEndian" THEN ByteOf(v, j - 1) ELSE ByteOf(v, n - j)]

RECURSIVE SumBytes(_, _, _, _)
SumBytes(order, bytes, n, j) ==
    IF j > n THEN 0
    ELSE (IF order = "LittleEndian" THEN bytes[j] * (ByteMod ^ (j - 1))
          ELSE bytes[j] * (ByteMod ^ (n - j)))
         + SumBytes(order, bytes, n, j + 1)

\* A mutant of Uint: the bytes are read least significant first for either order.
UintAlwaysLittle(order, bytes, n) == SumBytes("LittleEndian", bytes, n, 1)

\* binary.LittleEndian.UintW / binary.BigEndian.UintW of the first n bytes.
Uint(order, bytes, n) == SumBytes(order, bytes, n, 1)

\* (*m)[addr:] : the slice from offset addr on; Go panics when addr > len(*m).
SliceFrom(data, off) == SubSeq(data, off + 1, Len(data))

\* bigEndian.ReadW / littleEndian.ReadW on the bytes of one region.
RAMRead(data, order, off, n) ==
    IF off > Len(data) THEN [v |-> 0, err |-> Panic]
    ELSE IF Len(SliceFrom(data, off)) < n THEN [v |-> 0, err |-> errPage]
    ELSE [v |-> IF n = 1 THEN data[off + 1] ELSE Uint(order, SliceFrom(data, off), n),
          err |-> NoErr]

\* A mutant of RAMWrite: the length test asks for one byte whatever the width,
\* and the bytes that fit are stored.
RAMWriteShortTest(data, order, off, n, v) ==
    IF off > Len(data) THEN [data |-> data, err |-> Panic]
    ELSE IF Len(SliceFrom(data, off)) < 1 THEN [data |-> data, err |-> errPage]
    ELSE LET bytes == IF n = 1 THEN <<v>> ELSE PutUint(order, v, n)
         IN [data |-> [k \in 1 .. Len(data) |->
                          IF k > off /\ k <= off + n THEN bytes[k - off] ELSE data[k]],
             err |-> NoErr]

\* bigEndian.WriteW / littleEndian.WriteW on the bytes of one region.
RAMWrite(data, order, off, n, v) ==
    IF off > Len(data) THEN [data |-> data, err |-> Panic]
    ELSE IF Len(SliceFrom(data, off)) < n THEN [data |-> data, err |-> errPage]
    ELSE LET bytes == IF n = 1 THEN <<v>> ELSE PutUint(order, v, n)
         IN [data |-> [k \in 1 .. Len(data) |->
                          IF k > off /\ k <= off + n THEN bytes[k - off] ELSE data[k]],
             err |-> NoErr]

\* m.ReadW(off) through the Interface: NoMemory, or one of the RAM types.
RegionRead(M, m, off, n) ==
    IF m = NoMem THEN [v |-> 0, err |-> errBus("opRead", n, off)]
    ELSE RAMRead(M[m], ByteOrder(m), off, n)

\* A mutant of RegionWrite: NoMemory.WriteW reports a read.
RegionWriteReportsRead(M, m, off, n, v) ==
    IF m = NoMem THEN [mem |-> M, err |-> errBus("opRead", n, off)]
    ELSE LET r == RAMWrite(M[m], ByteOrder(m), off, n, v)
         IN [mem |-> [M EXCEPT ![m] = r.data], err |-> r.err]

\* A mutant of RegionWrite: a successful write to another region also sets
\* the first byte of the first region.
RegionWriteTouchesOther(M, m, off, n, v) ==
    IF m = NoMem THEN [mem |-> M, err |-> errBus("opWrite", n, off)]
    ELSE LET r == RAMWrite(M[m], ByteOrder(m), off, n, v)
             M2 == [M EXCEPT ![m] = r.data]
         IN [mem |-> IF r.err = NoErr /\ m # 1
                     THEN [M2 EXCEPT ![1] = [M2[1] EXCEPT ![1] = ByteMod - 1]]
                     ELSE M2,
             err |-> r.err]

\* m.WriteW(off, v) through the Interface.
RegionWrite(M, m, off, n, v) ==
    IF m = NoMem THEN [mem |-> M, err |-> errBus("opWrite", n, off)]
    ELSE LET r == RAMWrite(M[m], ByteOrder(m), off, n, v)
         IN [mem |-> [M EXCEPT ![m] = r.data], err |-> r.err]

\* ---------------------------------------------------------------- blocks

NilBlock == [s |-> 0, e |-> 0, m |-> Null]

nilMemory == [s |-> AddrMax, e |-> 0, m |-> NoMem]

\* A mutant of overlaps: only the start of blk is tested against b1.
overlapsStartOnly(b1, blk) == blk.s >= b1.s /\ blk.s <= b1.e

overlaps(b1, blk) ==
    \/ blk.s >= b1.s /\ blk.s <= b1.e
    \/ b1.s >= blk.s /\ b1.s <= blk.e

contains(blk, addr) == blk # NilBlock /\ addr <= blk.e /\ addr >= blk.s

\* ------------------------------------------------------------------- bus
\* A bus value is [b |-> the block slice, p |-> the preferred block or NilBlock].
\* Slice indices are the code's, from 0: bus.b[i + 1] is b.b[i].

ZeroBus == [b |-> <<>>, p |-> NilBlock]

RECURSIVE insertLoopReversed(_, _, _, _)
\* A mutant of insertLoop: the comparison of the starts is reversed.
insertLoopReversed(bb, blk, l, h) ==
    IF l = h THEN l
    ELSE LET i == l + (h - l) \div 2
             bi == bb[i + 1]
         IN IF overlaps(blk, bi) THEN -1
            ELSE IF bi.s < blk.s THEN insertLoopReversed(bb, blk, l, i)
            ELSE insertLoopReversed(bb, blk, i + 1, h)

RECURSIVE insertLoop(_, _, _, _)
insertLoop(bb, blk, l, h) ==
    IF l = h THEN l
    ELSE LET i == l + (h - l) \div 2
             bi == bb[i + 1]
         IN IF overlaps(blk, bi) THEN -1
            ELSE IF bi.s > blk.s THEN insertLoop(bb, blk, l, i)
            ELSE insertLoop(bb, blk, i + 1, h)

insertIdx(bus, blk) == insertLoop(bus.b, blk, 0, Len(bus.b))

\* append(b.b, nil); copy(b.b[i+1:], b.b[i:]); b.b[i] = blk
InsertAt(bb, i, blk) == SubSeq(bb, 1, i) \o <<blk>> \o SubSeq(bb, i + 1, Len(bb))

\* A mutant of insert: a block added to the slice is made the preferred block
\* as well.
insertSetsPreferred(bus, blk) ==
    IF Len(bus.b) = 0 /\ bus.p = NilBlock
    THEN [bus |-> [bus EXCEPT !.p = blk], err |-> NoErr]
    ELSE LET i == insertIdx(bus, blk)
         IN IF (bus.p # NilBlock /\ overlaps(blk, bus.p)) \/ i < 0
            THEN [bus |-> bus, err |-> errOverlap]
            ELSE [bus |-> [b |-> InsertAt(bus.b, i, blk), p |-> blk], err |-> NoErr]

\* A mutant of insert: the new block takes the preferred slot whenever the
\* slice is empty.
insertEmptySliceOnly(bus, blk) ==
    IF Len(bus.b) = 0
    THEN [bus |-> [bus EXCEPT !.p = blk], err |-> NoErr]
    ELSE LET i == insertIdx(bus, blk)
         IN IF (bus.p # NilBlock /\ overlaps(blk, bus.p)) \/ i < 0
            THEN [bus |-> bus, err |-> errOverlap]
            ELSE [bus |-> [bus EXCEPT !.b = InsertAt(bus.b, i, blk)], err |-> NoErr]

\* A mutant of insert: the preferred block is not tested for overlap.
insertNoPreferredTest(bus, blk) ==
    IF Len(bus.b) = 0 /\ bus.p = NilBlock
    THEN [bus |-> [bus EXCEPT !.p = blk], err |-> NoErr]
    ELSE LET i == insertIdx(bus, blk)
         IN IF i < 0
            THEN [bus |-> bus, err |-> errOverlap]
            ELSE [bus |-> [bus EXCEPT !.b = InsertAt(bus.b, i, blk)], err |-> NoErr]

insert(bus, blk) ==
    IF Len(bus.b) = 0 /\ bus.p = NilBlock
    THEN [bus |-> [bus EXCEPT !.p = blk], err |-> NoErr]
    ELSE LET i == insertIdx(bus, blk)
         IN IF (bus.p # NilBlock /\ overlaps(blk, bus.p)) \/ i < 0
            THEN [bus |-> bus, err |-> errOverlap]
            ELSE [bus |-> [bus EXCEPT !.b = InsertAt(bus.b, i, blk)], err |-> NoErr]

\* A mutant of MapEnd: the end is taken one past the last byte.
MapEndPastLast(addr, m) == AddrAdd(addr, Size(m))

\* end := addr + (m.Size() - 1)
MapEnd(addr, m) == AddrAdd(addr, Size(m) - 1)

Map(bus, addr, m) ==
    IF Size(m) = 0 THEN [bus |-> bus, err |-> NoErr]
    ELSE LET end == MapEnd(addr, m)
         IN IF end < addr THEN [bus |-> bus, err |-> errOverflow]
            ELSE insert(bus, [s |-> addr, e |-> end, m |-> m])

RECURSIVE findIdx(_, _)
findIdx(bb, addr) ==
    IF Len(bb) = 0 THEN -1
    ELSE LET i == Len(bb) \div 2
             blk == bb[i + 1]
         IN IF blk.s > addr THEN findIdx(SubSeq(bb, 1, i), addr)
            ELSE IF blk.e < addr THEN findIdx(SubSeq(bb, i + 2, Len(bb)), addr)
            ELSE i

RECURSIVE find(_, _)
find(bb, addr) ==
    IF Len(bb) = 0 THEN nilMemory
    ELSE LET i == Len(bb) \div 2
             blk == bb[i + 1]
         IN IF blk.s > addr THEN find(SubSeq(bb, 1, i), addr)
            ELSE IF blk.e < addr THEN find(SubSeq(bb, i + 2, Len(bb)), addr)
            ELSE blk

memory(bus, addr) == IF contains(bus.p, addr) THEN bus.p ELSE find(bus.b, addr)

\* Bus.Memory: the pair (base, region).
Memory(bus, addr) ==
    IF Len(bus.b) = 0 THEN [base |-> 0, m |-> nilMemory.m]
    ELSE LET e == memory(bus, addr) IN [base |-> e.s, m |-> e.m]

\* Go's copy(dst, src) into bb, dst == bb[d:], src == bb[lo:hi] (indices from 0):
\* min(len(dst), len(src)) elements, as if through a temporary.
Copy(bb, d, lo, hi) ==
    LET n == IF hi - lo < Len(bb) - d THEN hi - lo ELSE Len(bb) - d
    IN [k \in 1 .. Len(bb) |->
          IF k - 1 >= d /\ k - 1 < d + n THEN bb[lo + (k - 1 - d) + 1] ELSE bb[k]]

\* A mutant of Preferred: the shift-left path stores the old preferred block
\* without i--.
PreferredNoDecrement(bus, addr) ==
    IF contains(bus.p, addr) THEN bus
    ELSE LET o == findIdx(bus.b, addr)
         IN IF o < 0 THEN bus
            ELSE IF bus.p = NilBlock
            THEN [b |-> SubSeq(Copy(bus.b, o, o + 1, Len(bus.b)), 1, Len(bus.b) - 1),
                  p |-> bus.b[o + 1]]
            ELSE LET i == insertIdx(bus, bus.p)
                     t == bus.p
                     np == bus.b[o + 1]
                 IN IF i < 0
                    \* b.b[i:o] with i == -1 panics, after t, b.p = b.p, b.b[o]
                    THEN [b |-> bus.b, p |-> np]
                    ELSE IF i < o
                    THEN [b |-> [Copy(bus.b, i + 1, i, o) EXCEPT ![i + 1] = t], p |-> np]
                    ELSE IF i > o
                    THEN [b |-> [Copy(bus.b, o, o + 1, i) EXCEPT ![i + 1] = t], p |-> np]
                    ELSE [b |-> [bus.b EXCEPT ![i + 1] = t], p |-> np]

Preferred(bus, addr) ==
    IF contains(bus.p, addr) THEN bus
    ELSE LET o == findIdx(bus.b, addr)
         IN IF o < 0 THEN bus
            ELSE IF bus.p = NilBlock
            THEN [b |-> SubSeq(Copy(bus.b, o, o + 1, Len(bus.b)), 1, Len(bus.b) - 1),
                  p |-> bus.b[o + 1]]
            ELSE LET i == insertIdx(bus, bus.p)
                     t == bus.p
                     np == bus.b[o + 1]
                 IN IF i < 0
                    \* b.b[i:o] with i == -1 panics, after t, b.p = b.p, b.b[o]
                    THEN [b |-> bus.b, p |-> np]
                    ELSE IF i < o
                    THEN [b |-> [Copy(bus.b, i + 1, i, o) EXCEPT ![i + 1] = t], p |-> np]
                    ELSE IF i > o
                    THEN [b |-> [Copy(bus.b, o, o + 1, i) EXCEPT ![i] = t], p |-> np]
                    ELSE [b |-> [bus.b EXCEPT ![i + 1] = t], p |-> np]

\* Preferred(addr) panics: the preferred block overlaps a block of the slice
\* (insertIdx returns -1) and the slice expression b.b[i:o] is out of range.
PreferredPanics(bus, addr) ==
    /\ ~contains(bus.p, addr)
    /\ findIdx(bus.b, addr) >= 0
    /\ bus.p # NilBlock
    /\ insertIdx(bus, bus.p) < 0

\* A mutant of RemapEnd: the end is counted from the start of the old block.
RemapEndFromStart(blk, addr, m) == AddrAdd(blk.s, Size(m) - 1)

\* end := addr + (m.Size() - 1); blk is the block Remap replaces
RemapEnd(blk, addr, m) == AddrAdd(addr, Size(m) - 1)

\* A mutant of Remap: the block is replaced before the test against the next
\* block.
RemapReplacesFirst(bus, addr, m) ==
    IF contains(bus.p, addr) THEN [bus |-> bus, err |-> NoErr]
    ELSE LET i == findIdx(bus.b, addr)
         IN IF i < 0 THEN Map(bus, addr, m)
            ELSE LET blk == bus.b[i + 1]
                     end == AddrAdd(addr, Size(m) - 1)
                     new == [s |-> blk.s, e |-> end, m |-> m]
                     nb == [b |-> [bus.b EXCEPT ![i + 1] = new],
                            p |-> IF bus.p = blk THEN new ELSE bus.p]
                 IN IF /\ Size(m) > Size(blk.m)
                       /\ i < Len(bus.b) - 1
                       /\ end >= bus.b[i + 2].s
                    THEN [bus |-> nb, err |-> errOverlap]
                    ELSE [bus |-> nb, err |-> NoErr]

\* Bus.Remap: the bus after the call and the error.
Remap(bus, addr, m) ==
    IF contains(bus.p, addr) THEN [bus |-> bus, err |-> NoErr]
    ELSE LET i == findIdx(bus.b, addr)
         IN IF i < 0 THEN Map(bus, addr, m)
            ELSE LET blk == bus.b[i + 1]
                     end == RemapEnd(blk, addr, m)
                 IN IF /\ Size(m) > Size(blk.m)
                       /\ i < Len(bus.b) - 1
                       /\ end >= bus.b[i + 2].s
                    THEN [bus |-> bus, err |-> errOverlap]
                    \* blk.m = m; blk.e = end, through the pointer b.b[i]: a
                    \* preferred slot that holds the same *block sees it too
                    ELSE LET new == [s |-> blk.s, e |-> end, m |-> m]
                         IN [bus |-> [b |-> [bus.b EXCEPT ![i + 1] = new],
                                      p |-> IF bus.p = blk THEN new ELSE bus.p],
                             err |-> NoErr]

RECURSIVE RangeLoop(_, _, _)
\* The loop of MappedRange over the slice: r is [low, high, ok] so far.
RangeLoop(bb, t, r) ==
    IF bb = <<>> THEN r
    ELSE LET blk == Head(bb)
         IN IF Type(blk.m) # t THEN RangeLoop(Tail(bb), t, r)
            ELSE RangeLoop(Tail(bb), t,
                           [low |-> IF blk.s < r.low THEN blk.s ELSE r.low,
                            high |-> IF blk.e > r.high THEN blk.e ELSE r.high,
                            ok |-> TRUE])

\* A mutant of MappedRange: the preferred block is not looked at.
MappedRangeSkipsPreferred(bus, t) ==
    LET r == RangeLoop(bus.b, t, [low |-> AddrMax, high |-> 0, ok |-> FALSE])
    IN IF r.ok THEN [low |-> r.low, high |-> AddrAdd(r.high, 1), err |-> NoErr]
       ELSE [low |-> 0, high |-> 0, err |-> errNoMemoryMap]

\* Bus.MappedRange(t): (low, high, err)
MappedRange(bus, t) ==
    LET r0 == IF bus.p # NilBlock /\ Type(bus.p.m) = t
              THEN [low |-> bus.p.s, high |-> bus.p.e, ok |-> TRUE]
              ELSE [low |-> AddrMax, high |-> 0, ok |-> FALSE]
        r == RangeLoop(bus.b, t, r0)
    IN IF r.ok THEN [low |-> r.low, high |-> AddrAdd(r.high, 1), err |-> NoErr]
       ELSE [low |-> 0, high |-> 0, err |-> errNoMemoryMap]

\* io.EOF, the error of busWriter.Write
errEOF == [kind |-> "EOF", op |-> "", sz |-> 0, addr |-> 0]

RECURSIVE WriteLoopKeepsBlock(_, _, _, _, _, _)
\* A mutant of WriteLoop: the block is not looked up again past its end.
WriteLoopKeepsBlock(B, M, addr, blk, p, n) ==
    IF p = <<>> THEN [mem |-> M, n |-> n, err |-> NoErr]
    ELSE LET cur == blk
             w == RegionWrite(M, cur.m, AddrSub(addr, cur.s), 1, Head(p))
         IN IF w.err = Panic THEN [mem |-> M, n |-> n, err |-> Panic]
            ELSE IF w.err # NoErr THEN [mem |-> M, n |-> n, err |-> errEOF]
            ELSE WriteLoopKeepsBlock(B, w.mem, AddrAdd(addr, 1), cur, Tail(p), n + 1)

RECURSIVE WriteLoopWraps(_, _, _, _, _, _)
\* A mutant of WriteLoop: the block is looked up again below its start too.
WriteLoopWraps(B, M, addr, blk, p, n) ==
    IF p = <<>> THEN [mem |-> M, n |-> n, err |-> NoErr]
    ELSE LET cur == IF addr > blk.e \/ addr < blk.s THEN memory(B, addr) ELSE blk
             w == RegionWrite(M, cur.m, AddrSub(addr, cur.s), 1, Head(p))
         IN IF w.err = Panic THEN [mem |-> M, n |-> n, err |-> Panic]
            ELSE IF w.err # NoErr THEN [mem |-> M, n |-> n, err |-> errEOF]
            ELSE WriteLoopWraps(B, w.mem, AddrAdd(addr, 1), cur, Tail(p), n + 1)

RECURSIVE WriteLoop(_, _, _, _, _, _)
\* The loop of busWriter.Write over the bytes p: w.addr is addr, blk the block
\* in use, n the bytes stored so far. A panic of Write8 ends the call.
WriteLoop(B, M, addr, blk, p, n) ==
    IF p = <<>> THEN [mem |-> M, n |-> n, err |-> NoErr]
    ELSE LET cur == IF addr > blk.e THEN memory(B, addr) ELSE blk
             w == RegionWrite(M, cur.m, AddrSub(addr, cur.s), 1, Head(p))
         IN IF w.err = Panic THEN [mem |-> M, n |-> n, err |-> Panic]
            ELSE IF w.err # NoErr THEN [mem |-> M, n |-> n, err |-> errEOF]
            ELSE WriteLoop(B, w.mem, AddrAdd(addr, 1), cur, Tail(p), n + 1)

\* b.Writer(addr).Write(p): the bytes of the regions after the call, the
\* count of bytes stored and the error.
WriterWrite(B, M, addr, p) == WriteLoop(B, M, addr, memory(B, addr), p, 0)

\* blk := b.p; if !blk.contains(addr) { blk = b.find(addr) }
Route(B, addr) == IF ~contains(B.p, addr) THEN find(B.b, addr) ELSE B.p

\* A mutant of RegionCalls: the region is called twice.
RegionCallsTwice(B, op, addr, n) ==
    LET blk == Route(B, addr)
        c == [m |-> blk.m, op |-> op, n |-> n, off |-> AddrSub(addr, blk.s)]
    IN <<c, c>>

\* The method calls Bus.ReadW / Bus.WriteW makes on regions, in order:
\* return blk.m.ReadW(addr - blk.s), resp. blk.m.WriteW(addr - blk.s, v).
RegionCalls(B, op, addr, n) ==
    LET blk == Route(B, addr)
    IN << [m |-> blk.m, op |-> op, n |-> n, off |-> AddrSub(addr, blk.s)] >>

\* Bus.ReadW(addr), W = 8 * n
BusRead(B, M, addr, n) ==
    LET blk == Route(B, addr) IN RegionRead(M, blk.m, AddrSub(addr, blk.s), n)

\* Bus.WriteW(addr, v), W = 8 * n
BusWrite(B, M, addr, n, v) ==
    LET blk == Route(B, addr) IN RegionWrite(M, blk.m, AddrSub(addr, blk.s), n, v)

\* --------------------------------------------------------------- sys.Bus

\* b.sz, the page size NewBus is called with (a power of 2 dividing the
\* address space).
PageSize == 2

\* The number of cache entries NewBus is called with.
CacheSize == 2

\* Bus.tag: tag(addr >> b.bits)
tag(addr) == addr \div PageSize

\* The address space of the paged bus: whole pages.
SysMod == (AddrMod \div PageSize) * PageSize

SysAddress == 0 .. SysMod - 1

sysAdd(x, y) == (x + y) % SysMod

sysSub(x, y) == (x - y + SysMod) % SysMod

Tags == 0 .. tag(SysMod - 1)

\* ^tag(0), the tag of an empty cache entry
NoTag == -1

\* nilMemory{}, and the nil *typedMem of an unmapped page. A mapped page is
\* the slice heap[m][off : off + len] of a memory.
NilPage == [m |-> 0, off |-> 0, len |-> 0]

\* memory.Page(addr, size) of the memory id of length mlen: the memory itself
\* when addr == 0 && size <= len(m), m[addr : addr+size] otherwise.
Page(id, mlen, addr, size) ==
    IF addr = 0 /\ size <= mlen
    THEN [m |-> id, off |-> 0, len |-> mlen]
    ELSE [m |-> id, off |-> addr, len |-> size]

\* memory.Get(addr): m[addr:], a slice of the memory's array; nil for nilMemory.
Get(pg, addr) ==
    IF pg = NilPage THEN [m |-> 0, start |-> 0, len |-> 0]
    ELSE [m |-> pg.m, start |-> pg.off + addr, len |-> pg.len - addr]

\* NewBus(PageSize, CacheSize); heap holds the bytes of the memories made by
\* mem.New, by id.
NewBus ==
    [pages |-> [t \in Tags |-> NilPage],
     cache |-> [i \in 0 .. CacheSize - 1 |-> [tag |-> NoTag, m |-> NilPage]],
     heap |-> <<>>]

\* mem.New(size): make(memory, size), zero-filled; its id is Len(heap).
New(B, size) == [B EXCEPT !.heap = Append(B.heap, [k \in 1 .. size |-> 0])]

\* x := v; F(x): the value v computed once and named, as a Go short variable
\* declaration does.
With(v, F(_)) == CHOOSE out \in {F(x) : x \in {v}} : TRUE

panicAligned == [kind |-> "panic", op |-> "Address must be page-aligned", sz |-> 0, addr |-> 0]

panicMapped == [kind |-> "panic", op |-> "Address already mapped", sz |-> 0, addr |-> 0]

panicPastEnd == [kind |-> "panic", op |-> "Page mapping past end of addressable memory.", sz |-> 0, addr |-> 0]

RECURSIVE sysMapLoop(_, _, _, _, _, _)
\* The loop of sys.Bus.Map: for i, pa := 0, addr; i < pages; i++
sysMapLoop(B, addr, id, i, pa, pages) ==
    IF i >= pages THEN [bus |-> B, err |-> NoErr]
    ELSE IF B.pages[tag(pa)] # NilPage THEN [bus |-> B, err |-> panicMapped]
    ELSE With([B EXCEPT !.pages[tag(pa)] =
                  Page(id, Len(B.heap[id]), sysSub(pa, addr), PageSize)], LAMBDA B1 :
         LET n == sysAdd(pa, PageSize)
         IN IF n <= addr
            THEN IF i = pages - 1 THEN [bus |-> B1, err |-> NoErr]
                 ELSE [bus |-> B1, err |-> panicPastEnd]
            ELSE sysMapLoop(B1, addr, id, i + 1, n, pages))

\* sys.Bus.Map(addr, m, memType) for the memory id
sysMap(B, addr, id) ==
    IF addr % PageSize # 0 THEN [bus |-> B, err |-> panicAligned]
    ELSE sysMapLoop(B, addr, id, 0, addr, Len(B.heap[id]) \div PageSize)

\* A mutant of Unmap: the cache keeps the entry of an unmapped page.
UnmapKeepsCache(B, addr, a, i) ==
    [B EXCEPT !.pages = [t \in Tags |->
        IF \E k \in 0 .. i - 1 : addr + k * PageSize < SysMod /\ t = tag(addr + k * PageSize)
        THEN NilPage ELSE B.pages[t]]]

RECURSIVE Unmap(_, _, _, _)
\* sys.Bus.Unmap(addr, n): for i, a := n, addr; a >= addr && i > 0; ...
\* Unmap(B, addr, a, i) is the loop at the address a with i pages left.
Unmap(B, addr, a, i) ==
    IF ~(a >= addr /\ i > 0) THEN B
    ELSE LET t == tag(a)
             slot == t % CacheSize
             B1 == IF B.cache[slot].tag = t
                   THEN [B EXCEPT !.cache[slot] = [tag |-> NoTag, m |-> NilPage]]
                   ELSE B
         IN Unmap([B1 EXCEPT !.pages[t] = NilPage], addr, sysAdd(a, PageSize), i - 1)

\* sys.Bus.Memory(addr): the cached entry, else the page (then cached), else
\* nilMemory.
sysMemory(B, addr) ==
    LET t == tag(addr)
        i == t % CacheSize
    IN IF B.cache[i].tag = t THEN [bus |-> B, m |-> B.cache[i].m]
       ELSE IF B.pages[t] # NilPage
       THEN [bus |-> [B EXCEPT !.cache[i] = [tag |-> t, m |-> B.pages[t]]], m |-> B.pages[t]]
       ELSE [bus |-> B, m |-> NilPage]

\* sys.Bus.Read8(addr)
sysRead8(B, addr) ==
    LET d == Get(sysMemory(B, addr).m, addr % PageSize)
    IN IF d.len < 1 THEN [v |-> 0, err |-> errBus("opRead", 1, addr)]
       ELSE [v |-> B.heap[d.m][d.start + 1], err |-> NoErr]

\* sys.Bus.ReadWLE(addr), W = 8 * n (Read8 for n = 1):
\* d := b.Memory(addr).Get(addr & b.pom); if len(d) < n { errBus }
sysReadLE(B, addr, n) ==
    With(sysMemory(B, addr), LAMBDA r :
    With(Get(r.m, addr % PageSize), LAMBDA d :
        IF d.len < n THEN [bus |-> r.bus, v |-> 0, err |-> errBus("opRead", n, addr)]
        ELSE [bus |-> r.bus,
              v |-> Uint("LittleEndian", [k \in 1 .. n |-> r.bus.heap[d.m][d.start + k]], n),
              err |-> NoErr]))

\* sys.Bus.WriteWLE(addr, v), W = 8 * n (Write8 for n = 1)
sysWriteLE(B, addr, n, v) ==
    With(sysMemory(B, addr), LAMBDA r :
    With(Get(r.m, addr % PageSize), LAMBDA d :
        IF d.len < n THEN [bus |-> r.bus, err |-> errBus("opWrite", n, addr)]
        ELSE [bus |-> [r.bus EXCEPT !.heap[d.m] =
                          [k \in 1 .. Len(r.bus.heap[d.m]) |->
                              IF k > d.start /\ k <= d.start + n
                              THEN PutUint("LittleEndian", v, n)[k - d.start]
                              ELSE r.bus.heap[d.m][k]]],
              err |-> NoErr]))

RECURSIVE sysWriteLoop(_, _, _, _, _, _)
\* The loop of sys's busWriter.Write over p[n + 1 ..]: d is the slice page, pp
\* the index into it, n the count so far.
sysWriteLoop(B, addr, d, pp, p, n) ==
    IF n >= Len(p) THEN [bus |-> B, addr |-> addr, n |-> n, err |-> NoErr]
    ELSE IF pp >= d.len
    THEN With(sysMemory(B, addr), LAMBDA r :
         With(Get(r.m, addr % PageSize), LAMBDA d1 :
            IF d1.len = 0
            THEN [bus |-> r.bus, addr |-> addr, n |-> n, err |-> errEOF]
            ELSE With([r.bus EXCEPT !.heap[d1.m][d1.start + 1] = p[n + 1]], LAMBDA B1 :
                    sysWriteLoop(B1, sysAdd(addr, 1), d1, 1, p, n + 1))))
    ELSE With([B EXCEPT !.heap[d.m][d.start + pp + 1] = p[n + 1]], LAMBDA B1 :
            sysWriteLoop(B1, sysAdd(addr, 1), d, pp + 1, p, n + 1))

\* n, err := w.Write(p) for the busWriter {addr, b} of sys.Bus.Writer(addr)
sysWrite(B, addr, p) == sysWriteLoop(B, addr, Get(NilPage, 0), 0, p, 0)

\* ------------------------------------------------------------------- elf

RECURSIVE scanMapped(_, _, _)
\* for start = cur; b.Memory(start).Size() != 0 && start != end; start += ps {}
scanMapped(B, start, end) ==
    With(sysMemory(B, start), LAMBDA r :
        IF r.m.len # 0 /\ start # end
        THEN scanMapped(r.bus, sysAdd(start, PageSize), end)
        ELSE [bus |-> r.bus, at |-> start])

RECURSIVE scanUnmappedIgnoresMapped(_, _, _)
\* A mutant of scanUnmapped: the run ends only at the end of the range.
scanUnmappedIgnoresMapped(B, cur, end) ==
    With(sysMemory(B, cur), LAMBDA r :
        IF cur # end
        THEN scanUnmappedIgnoresMapped(r.bus, sysAdd(cur, PageSize), end)
        ELSE [bus |-> r.bus, at |-> cur])

RECURSIVE scanUnmapped(_, _, _)
\* for cur = start + ps; b.Memory(cur).Size() == 0 && cur != end; cur += ps {}
scanUnmapped(B, cur, end) ==
    With(sysMemory(B, cur), LAMBDA r :
        IF r.m.len = 0 /\ cur # end
        THEN scanUnmapped(r.bus, sysAdd(cur, PageSize), end)
        ELSE [bus |-> r.bus, at |-> cur])

RECURSIVE allocLoop(_, _, _)
\* The loop of alloc: for cur != end { ...; b.Map(start, mem.New(cur-start)) }
allocLoop(B, cur, end) ==
    IF cur = end THEN [bus |-> B, err |-> NoErr]
    ELSE With(scanMapped(B, cur, end), LAMBDA s :
         IF s.at = end THEN [bus |-> s.bus, err |-> NoErr]
         ELSE With(scanUnmapped(s.bus, sysAdd(s.at, PageSize), end), LAMBDA c :
              With(New(c.bus, sysSub(c.at, s.at)), LAMBDA B1 :
              With(sysMap(B1, s.at, Len(B1.heap)), LAMBDA m :
                 IF m.err # NoErr THEN m
                 ELSE allocLoop(m.bus, c.at, end)))))

\* alloc(b, addr, size): size += addr & pm; size = (size + pm) & ^pm;
\* addr &= ^pm; cur, end = addr, addr + size
alloc(B, addr, size) ==
    LET pm == PageSize - 1
        size1 == sysAdd(size, addr % PageSize)
        size2 == sysAdd(size1, pm) - (sysAdd(size1, pm) % PageSize)
        addr1 == addr - (addr % PageSize)
    IN allocLoop(B, addr1, sysAdd(addr1, size2))

errType == [kind |-> "elf type not supported", op |-> "", sz |-> 0, addr |-> 0]

errProgType == [kind |-> "unsupported prog type", op |-> "", sz |-> 0, addr |-> 0]

panicTooLarge == [kind |-> "panic", op |-> "ELF file too large", sz |-> 0, addr |-> 0]

\* The bytes p.Open() reads for a program header: none of them is 0.
SegData(p) == [k \in 1 .. p.filesz |-> 1 + ((p.paddr + k) % (ByteMod - 1))]

\* What zeroReader{} gives io.CopyN for n bytes.
Zeros(n) == [k \in 1 .. n |-> 0]

\* The result of Load: arch and entry from the header, the error, and for the
\* record the index of the program header Load stopped at (0: at none).
LoadResult(B, f, err, at) ==
    [bus |-> B, arch |-> f.arch, entry |-> f.entry, err |-> err, at |-> at]

\* if autoAlloc { alloc(bus, p.Paddr, p.Memsz) }
allocIf(B, p, autoAlloc) ==
    IF autoAlloc THEN alloc(B, p.paddr, p.memsz) ELSE [bus |-> B, err |-> NoErr]

\* io.CopyN(w, zeroReader{}, int64(p.Memsz)-n) if uint64(n) < p.Memsz, for the
\* writer w after the file copy
zeroFill(w, p) ==
    IF w.n < p.memsz THEN sysWrite(w.bus, w.addr, Zeros(p.memsz - w.n)) ELSE w

RECURSIVE loadProgsContinues(_, _, _, _)
\* A mutant of loadProgs: a program header that fails is skipped.
loadProgsContinues(B, f, autoAlloc, i) ==
    IF i > Len(f.progs) THEN LoadResult(B, f, NoErr, 0)
    ELSE LET p == f.progs[i]
         IN IF p.type # "PT_LOAD" THEN loadProgsContinues(B, f, autoAlloc, i + 1)
            ELSE IF 2 * p.filesz >= SysMod \/ 2 * p.memsz >= SysMod
            THEN LoadResult(B, f, panicTooLarge, i)
            ELSE With(allocIf(B, p, autoAlloc), LAMBDA a :
                 IF a.err # NoErr THEN LoadResult(a.bus, f, a.err, i)
                 ELSE With(sysWrite(a.bus, p.paddr, SegData(p)), LAMBDA w :
                      With(zeroFill(w, p), LAMBDA z :
                      With(loadProgsContinues(z.bus, f, autoAlloc, i + 1), LAMBDA r :
                         IF w.err # NoErr THEN LoadResult(r.bus, f, w.err, i)
                         ELSE IF z.err # NoErr THEN LoadResult(r.bus, f, z.err, i)
                         ELSE r))))

RECURSIVE loadProgs(_, _, _, _)
\* The loop of Load from the program header i: for _, p := range f.Progs.
\* int64(p.Filesz) < 0 is a size of half the address space or more;
\* io.CopyN(w, r, n) writes the n bytes through w and returns w's error.
loadProgs(B, f, autoAlloc, i) ==
    IF i > Len(f.progs) THEN LoadResult(B, f, NoErr, 0)
    ELSE LET p == f.progs[i]
         IN IF p.type # "PT_LOAD" THEN LoadResult(B, f, errProgType, i)
            ELSE IF 2 * p.filesz >= SysMod \/ 2 * p.memsz >= SysMod
            THEN LoadResult(B, f, panicTooLarge, i)
            ELSE With(allocIf(B, p, autoAlloc), LAMBDA a :
                 IF a.err # NoErr THEN LoadResult(a.bus, f, a.err, i)
                 ELSE With(sysWrite(a.bus, p.paddr, SegData(p)), LAMBDA w :
                      IF w.err # NoErr THEN LoadResult(w.bus, f, w.err, i)
                      ELSE With(zeroFill(w, p), LAMBDA z :
                           IF z.err # NoErr THEN LoadResult(z.bus, f, z.err, i)
                           ELSE loadProgs(z.bus, f, autoAlloc, i + 1))))

\* A mutant of Load: the type is tested after the program headers are loaded.
LoadTestsTypeLast(B, f, autoAlloc) ==
    LET r == loadProgs(B, f, autoAlloc, 1)
    IN IF f.type # "ET_EXEC" THEN LoadResult(r.bus, f, errType, 0) ELSE r

\* elf.Load(name, bus, autoAlloc) for the file f that name opens
Load(B, f, autoAlloc) ==
    IF f.type # "ET_EXEC" THEN LoadResult(B, f, errType, 0)
    ELSE loadProgs(B, f, autoAlloc, 1)

\* ------------------------------------------------------------------- ZPU

\* The values of a uint32 in the model's byte base.
WordMod == ByteMod ^ 4

\* opIM = 0x80, the upper half of the opcodes: insn&opIMMask == opIM
opIM == (ByteMod + 1) \div 2

\* The number of values of insn&0x7F, the immediate of an IM instruction.
IMRange == ByteMod - opIM

\* uint32(int32(insn) << 25 >> 25): the immediate, sign-extended
SignExtend(insn) ==
    LET x == insn - opIM
    IN IF 2 * x >= IMRange THEN (x - IMRange + WordMod) % WordMod ELSE x

\* z := State{b: b} in New, before z.Reset(), on a bus without blocks
NewZPU == [pc |-> 0, sp |-> 0, idim |-> FALSE, halted |-> FALSE, steps |-> 0]

\* A mutant of Reset: the end of all mapped memory instead of the end of RAM.
ResetToEndOfMemory(z, B) ==
    LET io == MappedRange(B, "MemIO")
        ram == MappedRange(B, "MemRAM")
        e == IF io.err = NoErr /\ (io.high = 0 \/ (ram.high # 0 /\ io.high > ram.high))
             THEN io.high ELSE ram.high
    IN [z EXCEPT !.pc = 0, !.sp = e, !.idim = FALSE, !.halted = FALSE]

\* State.Reset: _, e := s.b.MappedRange(mem.MemRAM); s.sp = e
Reset(z, B) ==
    [z EXCEPT !.pc = 0, !.sp = MappedRange(B, "MemRAM").high,
              !.idim = FALSE, !.halted = FALSE]

\* State.Step(1) on an IM instruction (insn&opIMMask == opIM); read8 and
\* write32 panic on a bus error, push after s.sp -= 4.
StepIM(z, B, M) ==
    LET f == BusRead(B, M, z.pc, 1)
        insn == f.v
        z1 == [z EXCEPT !.steps = z.steps + 1]
    IN IF f.err # NoErr THEN [zpu |-> z1, mem |-> M, err |-> Panic]
       ELSE IF z.idim
       THEN LET t == BusRead(B, M, z.sp, 4)
                w == BusWrite(B, M, z.sp, 4, (t.v * IMRange + (insn - opIM)) % WordMod)
            IN IF t.err # NoErr THEN [zpu |-> z1, mem |-> M, err |-> Panic]
               ELSE IF w.err # NoErr THEN [zpu |-> z1, mem |-> w.mem, err |-> Panic]
               ELSE [zpu |-> [z1 EXCEPT !.pc = AddrAdd(z.pc, 1)], mem |-> w.mem, err |-> NoErr]
       ELSE LET sp == AddrSub(z.sp, 4)
                w == BusWrite(B, M, sp, 4, SignExtend(insn))
            IN IF w.err # NoErr
               THEN [zpu |-> [z1 EXCEPT !.sp = sp], mem |-> w.mem, err |-> Panic]
               ELSE [zpu |-> [z1 EXCEPT !.sp = sp, !.idim = TRUE, !.pc = AddrAdd(z.pc, 1)],
                     mem |-> w.mem, err |-> NoErr]

\* The opcodes below opIM, in the model's byte base: the breakpoint and, in
\* the order of their codes, four of the instructions of the switch in Step.
opBreakPoint == 0

opPushSP == 1

opPopPC == 2

opAdd == 3

opNop == 4

\* panic(err) in read8, read32 and write32: the panic's value is the bus error.
panic(err) == [kind |-> "panic", op |-> err.kind, sz |-> err.sz, addr |-> err.addr]

\* A Step call in progress: the State, the bytes of the regions, the calls
\* the regions have received from the bus during the call, and the value of
\* the panic that has ended it (NoErr while it runs). Once err is set no
\* further statement of Step runs.
Exec(z, M) == [z |-> z, mem |-> M, log |-> <<>>, err |-> NoErr]

\* s.read8(addr): v, err := s.b.Read8(addr); if err != nil { panic(err) }
read8(X, B, addr) ==
    IF X.err # NoErr THEN [x |-> X, v |-> 0]
    ELSE With(BusRead(B, X.mem, addr, 1), LAMBDA r :
            [x |-> [X EXCEPT !.log = X.log \o RegionCalls(B, "opRead", addr, 1),
                             !.err = IF r.err = NoErr THEN NoErr ELSE panic(r.err)],
             v |-> r.v])

\* s.read32(addr): v, err := s.b.Read32BE(addr); if err != nil { panic(err) }
read32(X, B, addr) ==
    IF X.err # NoErr THEN [x |-> X, v |-> 0]
    ELSE With(BusRead(B, X.mem, addr, 4), LAMBDA r :
            [x |-> [X EXCEPT !.log = X.log \o RegionCalls(B, "opRead", addr, 4),
                             !.err = IF r.err = NoErr THEN NoErr ELSE panic(r.err)],
             v |-> r.v])

\* s.write32(addr, v): err := s.b.Write32BE(addr, v); if err != nil { panic(err) }
write32(X, B, addr, v) ==
    IF X.err # NoErr THEN X
    ELSE With(BusWrite(B, X.mem, addr, 4, v), LAMBDA r :
            [X EXCEPT !.mem = r.mem,
                      !.log = X.log \o RegionCalls(B, "opWrite", addr, 4),
                      !.err = IF r.err = NoErr THEN NoErr ELSE panic(r.err)])

\* s.tos(): return s.read32(s.sp)
tos(X, B) == read32(X, B, X.z.sp)

\* A mutant of push: the word is written at the old SP, then SP decremented.
pushBelowWord(X, B, v) ==
    IF X.err # NoErr THEN X
    ELSE With(write32(X, B, X.z.sp, v), LAMBDA X1 :
            IF X1.err # NoErr THEN X1 ELSE [X1 EXCEPT !.z.sp = AddrSub(X.z.sp, 4)])

\* s.push(v): s.sp -= 4; s.write32(s.sp, v)
push(X, B, v) ==
    IF X.err # NoErr THEN X
    ELSE write32([X EXCEPT !.z.sp = AddrSub(X.z.sp, 4)], B, AddrSub(X.z.sp, 4), v)

\* s.pop(): v := s.read32(s.sp); s.sp += 4; return v
pop(X, B) ==
    With(read32(X, B, X.z.sp), LAMBDA r :
        [x |-> IF r.x.err # NoErr THEN r.x
               ELSE [r.x EXCEPT !.z.sp = AddrAdd(X.z.sp, 4)],
         v |-> r.v])

\* if incPC { s.pc++ }, and s.pc++ of the IM branch
incPC(X) == IF X.err # NoErr THEN X ELSE [X EXCEPT !.z.pc = AddrAdd(X.z.pc, 1)]

\* A mutant of im: every IM pushes its operand.
imAlwaysPushes(X, B, insn) ==
    With(push(X, B, SignExtend(insn)), LAMBDA X1 :
        incPC(IF X1.err # NoErr THEN X1 ELSE [X1 EXCEPT !.z.idim = TRUE]))

\* The IM branch of Step's loop: if s.idim { s.write32(s.sp, (s.tos()<<7) |
\* uint32(insn&0x7F)) } else { s.push(...); s.idim = true }; s.pc++
im(X, B, insn) ==
    IF X.z.idim
    THEN With(tos(X, B), LAMBDA t :
            incPC(write32(t.x, B, X.z.sp, (t.v * IMRange + (insn - opIM)) % WordMod)))
    ELSE With(push(X, B, SignExtend(insn)), LAMBDA X1 :
            incPC(IF X1.err # NoErr THEN X1 ELSE [X1 EXCEPT !.z.idim = TRUE]))

\* One pass of the body of Step's loop: the fetch, then the instruction. brk
\* says that the instruction was the breakpoint (return n - cycles).
cycle(X, B) ==
    With(read8(X, B, X.z.pc), LAMBDA f :
        IF f.x.err # NoErr THEN [x |-> f.x, brk |-> FALSE]
        ELSE IF f.v >= opIM THEN [x |-> im(f.x, B, f.v), brk |-> FALSE]
        ELSE With([f.x EXCEPT !.z.idim = FALSE], LAMBDA X1 :
            CASE f.v = opBreakPoint -> [x |-> X1, brk |-> TRUE]
              [] f.v = opPopPC ->
                    With(pop(X1, B), LAMBDA r :
                        [x |-> IF r.x.err # NoErr THEN r.x ELSE [r.x EXCEPT !.z.pc = r.v],
                         brk |-> FALSE])
              [] f.v = opPushSP -> [x |-> incPC(push(X1, B, X1.z.sp)), brk |-> FALSE]
              [] f.v = opAdd ->
                    With(pop(X1, B), LAMBDA y :
                    With(tos(y.x, B), LAMBDA t :
                        [x |-> incPC(write32(t.x, B, y.x.z.sp, (t.v + y.v) % WordMod)),
                         brk |-> FALSE]))
              [] OTHER -> [x |-> incPC(X1), brk |-> FALSE]))

RECURSIVE StepLoopCountsBreakPoint(_, _, _, _)
\* A mutant of StepLoop: the breakpoint counts as an instruction and is
\* stepped over.
StepLoopCountsBreakPoint(X, B, n, cycles) ==
    IF ~(cycles > 0 /\ ~X.z.halted) THEN [x |-> X, ret |-> n - cycles]
    ELSE With(cycle(X, B), LAMBDA c :
            IF c.x.err # NoErr THEN [x |-> c.x, ret |-> 0]
            ELSE IF c.brk THEN [x |-> incPC(c.x), ret |-> n - cycles + 1]
            ELSE StepLoopCountsBreakPoint(c.x, B, n, cycles - 1))

RECURSIVE StepLoopOneMore(_, _, _, _)
\* A mutant of StepLoop: the loop makes one pass more than the count.
StepLoopOneMore(X, B, n, cycles) ==
    IF ~(cycles > -1 /\ ~X.z.halted) THEN [x |-> X, ret |-> n - cycles]
    ELSE With(cycle(X, B), LAMBDA c :
            IF c.x.err # NoErr THEN [x |-> c.x, ret |-> 0]
            ELSE IF c.brk THEN [x |-> c.x, ret |-> n - cycles]
            ELSE StepLoopOneMore(c.x, B, n, cycles - 1))

RECURSIVE StepLoop(_, _, _, _)
\* for ; cycles > 0 && !s.halted; cycles-- { ... }; return n - cycles. A panic
\* ends the call without a result (ret is 0 then).
StepLoop(X, B, n, cycles) ==
    IF ~(cycles > 0 /\ ~X.z.halted) THEN [x |-> X, ret |-> n - cycles]
    ELSE With(cycle(X, B), LAMBDA c :
            IF c.x.err # NoErr THEN [x |-> c.x, ret |-> 0]
            ELSE IF c.brk THEN [x |-> c.x, ret |-> n - cycles]
            ELSE StepLoop(c.x, B, n, cycles - 1))

\* State.Step(n): var cycles = n
Step(z, B, M, n) == StepLoop(Exec(z, M), B, n, n)

\* No Load call yet.
NoLoad == [file |-> [type |-> "", entry |-> 0, arch |-> "", progs |-> <<>>],
           auto |-> FALSE, arch |-> "", entry |-> 0]

\* ----------------------------------------------------------------- state

VARIABLES
    bus,     \* the mem.Bus: [b |-> block slice, p |-> preferred block]
    mem,     \* the bytes of every region: mem[m][o + 1] is (*m)[o]
    last,    \* the call in progress and what it returned, NoCall between calls
    nwrites, \* successful sized writes so far
    nremaps, \* Remap calls so far that changed the bus
    writer,  \* the busWriter made by b.Writer(addr), NoWriter before
    log,     \* the method calls the regions have received from the bus, in order
    zpu,     \* the zpu.State made by zpu.New(&b): pc, sp, idim, halted
    sbus,    \* the sys.Bus: pages, cache, and the memories mapped on it
    elf,     \* the arguments and the (arch, entry) results of the last elf.Load
    nloads,  \* the number of alloc and Load calls made
    maplog   \* the sys.Bus.Map calls the caller has made since Init: <<addr, size>>

\* The state outside the bus, its regions and the call counters.
ext == <<writer, log, zpu, sbus, elf, nloads, maplog>>

vars == <<bus, mem, last, nwrites, nremaps, ext>>

\* The record of a call: the arguments (addr, region m, width n in bytes,
\* value v), and the results (value rv, base and region of Memory, error).
Call(op, addr, m, n, v, rv, base, rm, err) ==
    [op |-> op, addr |-> addr, m |-> m, n |-> n, v |-> v, rv |-> rv,
     base |-> base, rm |-> rm, err |-> err]

NoCall == Call("", 0, NoMem, 0, 0, 0, 0, NoMem, NoErr)

\* A busWriter: w.addr, and for the record the address it was made at, the
\* bytes its Write calls have stored, the argument of the last Write call and
\* the number of Write calls. open is FALSE while no Writer was made.
NoWriter == [open |-> FALSE, addr |-> 0, start |-> 0, data |-> <<>>, p |-> <<>>, calls |-> 0]

\* The blocks of a bus, the preferred one included.
Blocks(B) == {B.b[k] : k \in 1 .. Len(B.b)} \cup (IF B.p = NilBlock THEN {} ELSE {B.p})

NBlocks(B) == Len(B.b) + (IF B.p = NilBlock THEN 0 ELSE 1)

Mapped(B, a) == \E blk \in Blocks(B) : blk.s <= a /\ a <= blk.e

\* var b Bus
Init ==
    /\ bus = ZeroBus
    /\ mem = NewRAM
    /\ last = NoCall
    /\ nwrites = 0
    /\ nremaps = 0
    /\ writer = NoWriter
    /\ log = <<>>
    /\ zpu = NewZPU
    /\ sbus = NewBus
    /\ elf = NoLoad
    /\ nloads = 0
    /\ maplog = <<>>

\* b.Map(addr, m)
CallMap(addr, m) ==
    LET r == Map(bus, addr, m)
    IN /\ last = NoCall
       /\ r.bus # bus => NBlocks(bus) < MaxBlocks
       /\ bus' = r.bus
       /\ last' = Call("Map", addr, m, 0, 0, 0, 0, NoMem, r.err)
       /\ UNCHANGED <<mem, nwrites, nremaps, ext>>

\* b.Preferred(addr)
CallPreferred(addr) ==
    /\ last = NoCall
    /\ bus' = Preferred(bus, addr)
    /\ last' = Call("Preferred", addr, NoMem, 0, 0, 0, 0, NoMem,
                     IF PreferredPanics(bus, addr) THEN Panic ELSE NoErr)
    /\ UNCHANGED <<mem, nwrites, nremaps, ext>>

\* base, m := b.Memory(addr)
CallMemory(addr) ==
    LET r == Memory(bus, addr)
    IN /\ last = NoCall
       /\ last' = Call("Memory", addr, NoMem, 0, 0, 0, r.base, r.m, NoErr)
       /\ UNCHANGED <<bus, mem, nwrites, nremaps, ext>>

\* The caller has taken the result of the last call and makes the next one.
Return ==
    /\ last # NoCall
    /\ last' = NoCall
    /\ UNCHANGED <<bus, mem, nwrites, nremaps, ext>>

Next ==
    \/ Return
    \/ \E addr \in Address, m \in Regions : CallMap(addr, m)
    \/ \E addr \in Address : CallPreferred(addr)
    \/ \E addr \in Address : CallMemory(addr)

Spec == Init /\ [][Next]_vars

\* ------------------------------------------------- sized accesses (SpecRW)

RECURSIVE Pattern(_)
\* The n-byte value whose byte k (from the least significant) is k + 1.
Pattern(n) == IF n = 0 THEN 0 ELSE Pattern(n - 1) + n * (ByteMod ^ (n - 1))

\* The values the write actions store.
WriteVals(n) == {Pattern(n)}

RECURSIVE MapAll(_, _)
\* The bus after the calls b.Map(calls[1][1], calls[1][2]), ... on B.
MapAll(B, calls) ==
    IF calls = <<>> THEN B
    ELSE MapAll(Map(B, calls[1][1], calls[1][2]).bus, Tail(calls))

\* The buses sized accesses are made on: each the result of Map calls on a
\* zero Bus. An empty bus; one block (preferred) with unmapped addresses on
\* both sides; two contiguous blocks, the first or the second preferred; a
\* block ending at the highest address; one region mapped three times; two
\* distinct RAM regions side by side; a block ending at the highest address
\* and a block at address 0.
Layouts ==
    { <<>>,
      << <<1, 1>> >>,
      << <<0, 2>>, <<8, 4>> >>,
      << <<8, 4>>, <<0, 1>> >>,
      << <<AddrMax - 7, 2>> >>,
      << <<0, 3>>, <<3, 3>>, <<7, 3>> >>,
      << <<0, 3>>, <<3, 1>> >>,
      << <<AddrMax - 2, 3>>, <<0, 4>> >> }

InitRW ==
    /\ \E calls \in Layouts : bus = MapAll(ZeroBus, calls)
    /\ mem = NewRAM
    /\ last = NoCall
    /\ nwrites = 0
    /\ nremaps = 0
    /\ writer = NoWriter
    /\ log = <<>>
    /\ zpu = NewZPU
    /\ sbus = NewBus
    /\ elf = NoLoad
    /\ nloads = 0
    /\ maplog = <<>>

\* v, err := b.ReadW(addr)
CallRead(addr, n) ==
    LET r == BusRead(bus, mem, addr, n)
    IN /\ last = NoCall
       /\ last' = Call("Read", addr, Route(bus, addr).m, n, 0, r.v, 0, NoMem, r.err)
       /\ UNCHANGED <<bus, mem, nwrites, nremaps, ext>>

\* err := b.WriteW(addr, v)
CallWrite(addr, n, v) ==
    LET r == BusWrite(bus, mem, addr, n, v)
    IN /\ last = NoCall
       /\ r.mem # mem => nwrites < MaxWrites
       /\ mem' = r.mem
       /\ nwrites' = IF r.mem # mem THEN nwrites + 1 ELSE nwrites
       /\ last' = Call("Write", addr, Route(bus, addr).m, n, v, 0, 0, NoMem, r.err)
       /\ UNCHANGED <<bus, nremaps, ext>>

\* v, err := m.ReadW(off), called on a region directly
CallRegionRead(m, off, n) ==
    LET r == RegionRead(mem, m, off, n)
    IN /\ last = NoCall
       /\ last' = Call("RegionRead", off, m, n, 0, r.v, 0, NoMem, r.err)
       /\ UNCHANGED <<bus, mem, nwrites, nremaps, ext>>

\* err := m.WriteW(off, v), called on a region directly
CallRegionWrite(m, off, n, v) ==
    LET r == RegionWrite(mem, m, off, n, v)
    IN /\ last = NoCall
       /\ r.mem # mem => nwrites < MaxWrites
       /\ mem' = r.mem
       /\ nwrites' = IF r.mem # mem THEN nwrites + 1 ELSE nwrites
       /\ last' = Call("RegionWrite", off, m, n, v, 0, 0, NoMem, r.err)
       /\ UNCHANGED <<bus, nremaps, ext>>

NextRW ==
    \/ Return
    \/ \E addr \in Address, n \in Widths : CallRead(addr, n)
    \/ \E addr \in Address, n \in Widths : \E v \in WriteVals(n) : CallWrite(addr, n, v)

SpecRW == InitRW /\ [][NextRW]_vars

\* --------------------------------- regions called directly (SpecRegion)

\* The offsets the direct calls pass: inside the region, its size, and past it.
RegionOffs(m) == {o \in Address : o <= Size(m) + 1}

NextRegion ==
    \/ Return
    \/ \E m \in Regions, n \in Widths : \E off \in RegionOffs(m) : CallRegionRead(m, off, n)
    \/ \E m \in Regions, n \in Widths :
          \E off \in RegionOffs(m), v \in WriteVals(n) : CallRegionWrite(m, off, n, v)

SpecRegion == Init /\ [][NextRegion]_vars

\* ------------------------------------------- Map, Remap, Preferred (SpecRemap)

\* The memory types MappedRange is asked for.
Types == {"MemRAM", "MemIO"}

\* The buses Remap is called on, each the result of Map calls on a zero Bus:
\* three blocks with gaps, the lowest preferred; four contiguous or near
\* blocks (three in the slice); the preferred block above the slice's block.
RemapLayouts ==
    { << <<0, 3>>, <<3, 3>>, <<7, 3>> >>,
      << <<0, 4>>, <<2, 3>>, <<6, 4>>, <<9, 3>> >>,
      << <<8, 4>>, <<0, 1>> >> }

InitRemap ==
    /\ \E calls \in RemapLayouts : bus = MapAll(ZeroBus, calls)
    /\ mem = NewRAM
    /\ last = NoCall
    /\ nwrites = 0
    /\ nremaps = 0
    /\ writer = NoWriter
    /\ log = <<>>
    /\ zpu = NewZPU
    /\ sbus = NewBus
    /\ elf = NoLoad
    /\ nloads = 0
    /\ maplog = <<>>

\* err := b.Remap(addr, m)
CallRemap(addr, m) ==
    LET r == Remap(bus, addr, m)
    IN /\ last = NoCall
       /\ r.bus # bus => nremaps < MaxRemaps /\ NBlocks(r.bus) <= MaxBlocks
       /\ bus' = r.bus
       /\ nremaps' = IF r.bus # bus THEN nremaps + 1 ELSE nremaps
       /\ last' = Call("Remap", addr, m, 0, 0, 0, 0, NoMem, r.err)
       /\ UNCHANGED <<mem, nwrites, ext>>

\* low, high, err := b.MappedRange(t); the call record keeps low as base and
\* high as rv.
CallMappedRange(t) ==
    LET r == MappedRange(bus, t)
    IN /\ last = NoCall
       /\ last' = Call("MappedRange", 0, NoMem, 0, 0, r.high, r.low, NoMem, r.err)
       /\ UNCHANGED <<bus, mem, nwrites, nremaps, ext>>

NextRemap ==
    \/ Return
    \/ \E addr \in Address, m \in Regions : CallMap(addr, m)
    \/ \E addr \in Address, m \in Regions : CallRemap(addr, m)
    \/ \E addr \in Address : CallPreferred(addr)
    \/ \E t \in Types : CallMappedRange(t)

SpecRemap == InitRemap /\ [][NextRemap]_vars

\* --------------------------------------------- every operation (SpecAll)

\* The byte slices written through a Writer.
WriterData == {<<1>>, <<1, 2, 3>>}

\* The widths of the sized accesses of SpecAll, in bytes.
AllWidths == {1, 4}

\* n, err := b.Writer(addr).Write(p); the call record keeps n as rv.
CallWriter(addr, p) ==
    LET r == WriterWrite(bus, mem, addr, p)
    IN /\ last = NoCall
       /\ r.mem # mem => nwrites < MaxWrites
       /\ mem' = r.mem
       /\ nwrites' = IF r.mem # mem THEN nwrites + 1 ELSE nwrites
       /\ last' = Call("WriterWrite", addr, NoMem, Len(p), 0, r.n, 0, NoMem, r.err)
       /\ UNCHANGED <<bus, nremaps, ext>>

\* A behaviour of SpecAll changes the bytes of the regions or remaps a block,
\* not both.
NextAll ==
    \/ Return
    \/ \E addr \in Address, m \in Regions : CallMap(addr, m)
    \/ \E addr \in Address, m \in Regions : nwrites = 0 /\ CallRemap(addr, m)
    \/ \E addr \in Address : CallPreferred(addr)
    \/ \E addr \in Address : CallMemory(addr)
    \/ \E t \in Types : CallMappedRange(t)
    \/ \E addr \in Address, n \in AllWidths : CallRead(addr, n)
    \/ \E addr \in Address, n \in AllWidths :
          \E v \in WriteVals(n) : nremaps = 0 /\ CallWrite(addr, n, v)
    \/ \E addr \in Address, p \in WriterData : nremaps = 0 /\ CallWriter(addr, p)

SpecAll == InitRemap /\ [][NextAll]_vars

\* ------------------------------------------ the Writer (SpecWriter)

\* The byte slices passed to Write: byte k of a slice of length n is
\* (3 * n + k) % ByteMod.
RECURSIVE Bytes(_, _)
Bytes(n, k) == IF k > n THEN <<>> ELSE <<(3 * n + k) % ByteMod>> \o Bytes(n, k + 1)

WriteArgs == {Bytes(n, 1) : n \in {1, 2, 4}}

\* w := b.Writer(addr)
CallNewWriter(addr) ==
    /\ last = NoCall
    /\ ~writer.open
    /\ writer' = [open |-> TRUE, addr |-> addr, start |-> addr, data |-> <<>>,
                  p |-> <<>>, calls |-> 0]
    /\ last' = Call("Writer", addr, NoMem, 0, 0, 0, 0, NoMem, NoErr)
    /\ UNCHANGED <<bus, mem, nwrites, nremaps, log, zpu, sbus, elf, nloads, maplog>>

\* n, err := w.Write(p); the call record keeps w.addr before the call as addr,
\* len(p) as n and the count returned as rv.
CallWriterWrite(p) ==
    LET r == WriterWrite(bus, mem, writer.addr, p)
    IN /\ last = NoCall
       /\ writer.open
       /\ writer.calls < MaxWriterCalls
       /\ mem' = r.mem
       /\ writer' = [writer EXCEPT !.addr = AddrAdd(@, r.n),
                                   !.data = @ \o SubSeq(p, 1, r.n),
                                   !.p = p,
                                   !.calls = @ + 1]
       /\ last' = Call("WriterWrite", writer.addr, NoMem, Len(p), 0, r.n, 0, NoMem, r.err)
       /\ UNCHANGED <<bus, nwrites, nremaps, log, zpu, sbus, elf, nloads, maplog>>

NextWriter ==
    \/ Return
    \/ \E addr \in Address : CallNewWriter(addr)
    \/ \E p \in WriteArgs : CallWriterWrite(p)

SpecWriter == InitRW /\ [][NextWriter]_vars

\* ------------------------------------- what the regions observe (SpecLog)

\* v, err := b.ReadW(addr), the regions recording the calls they receive
CallReadLogged(addr, n) ==
    LET r == BusRead(bus, mem, addr, n)
    IN /\ last = NoCall
       /\ Len(log) < MaxLog
       /\ log' = log \o RegionCalls(bus, "opRead", addr, n)
       /\ last' = Call("Read", addr, Route(bus, addr).m, n, 0, r.v, 0, NoMem, r.err)
       /\ UNCHANGED <<bus, mem, nwrites, nremaps, writer, zpu, sbus, elf, nloads, maplog>>

\* err := b.WriteW(addr, v), the regions recording the calls they receive
CallWriteLogged(addr, n, v) ==
    LET r == BusWrite(bus, mem, addr, n, v)
    IN /\ last = NoCall
       /\ Len(log) < MaxLog
       /\ mem' = r.mem
       /\ log' = log \o RegionCalls(bus, "opWrite", addr, n)
       /\ last' = Call("Write", addr, Route(bus, addr).m, n, v, 0, 0, NoMem, r.err)
       /\ UNCHANGED <<bus, nwrites, nremaps, writer, zpu, sbus, elf, nloads, maplog>>

NextLog ==
    \/ Return
    \/ \E addr \in Address, n \in AllWidths : CallReadLogged(addr, n)
    \/ \E addr \in Address, n \in AllWidths :
          \E v \in WriteVals(n) : CallWriteLogged(addr, n, v)

SpecLog == InitRW /\ [][NextLog]_vars

\* --------------------------------------------------- the ZPU (SpecZPU)

\* z.Reset()
CallReset ==
    /\ last = NoCall
    /\ zpu' = Reset(zpu, bus)
    /\ last' = Call("Reset", 0, NoMem, 0, 0, zpu'.sp, 0, NoMem, NoErr)
    /\ UNCHANGED <<bus, mem, nwrites, nremaps, writer, log, sbus, elf, nloads, maplog>>

\* z.SetPC(addr)
CallSetPC(addr) ==
    /\ last = NoCall
    /\ zpu' = [zpu EXCEPT !.pc = addr]
    /\ last' = Call("SetPC", addr, NoMem, 0, 0, 0, 0, NoMem, NoErr)
    /\ UNCHANGED <<bus, mem, nwrites, nremaps, writer, log, sbus, elf, nloads, maplog>>

\* z.Step(1) with an IM instruction at pc, or with pc unmapped
CallStep ==
    LET f == BusRead(bus, mem, zpu.pc, 1)
        r == StepIM(zpu, bus, mem)
    IN /\ last = NoCall
       /\ zpu.steps < MaxSteps
       /\ f.err = NoErr => f.v >= opIM
       /\ zpu' = r.zpu
       /\ mem' = r.mem
       /\ last' = Call("Step", zpu.pc, NoMem, 1, 0, 0, 0, NoMem, r.err)
       /\ UNCHANGED <<bus, nwrites, nremaps, writer, log, sbus, elf, nloads, maplog>>

\* The instructions the programs of SpecZPU are made of.
Programs == {opIM, ByteMod - 1}

NextZPU ==
    \/ Return
    \/ CallReset
    \/ \E addr \in Address : CallSetPC(addr)
    \/ CallStep
    \/ \E addr \in Address, v \in Programs : CallWrite(addr, 1, v)

SpecZPU == InitRW /\ [][NextZPU]_vars

\* ------------------------------------------------ the loader (SpecLoad)

RECURSIVE PreMap(_, _)
\* The bus after the calls of a script on B: <<"Map", addr, size>> is
\* b.Map(addr, mem.New(size), MemRAM), <<"Unmap", addr, n>> is b.Unmap(addr, n).
PreMap(B, script) ==
    IF script = <<>> THEN B
    ELSE LET c == script[1]
             B1 == New(B, c[3])
         IN PreMap(IF c[1] = "Map" THEN sysMap(B1, c[2], Len(B1.heap)).bus
                   ELSE Unmap(B, c[2], c[2], c[3]),
                   Tail(script))

\* The buses images are loaded on: an empty bus; one page mapped in the middle;
\* pages at the start and further up; a region whose second page was unmapped;
\* a region one byte longer than a page; the highest page; two regions with
\* a hole between them; two contiguous regions.
SysLayouts ==
    { <<>>,
      << <<"Map", 4, 2>> >>,
      << <<"Map", 0, 2>>, <<"Map", 6, 2>> >>,
      << <<"Map", 0, 4>>, <<"Unmap", 2, 1>> >>,
      << <<"Map", 0, 3>> >>,
      << <<"Map", SysMod - PageSize, 2>> >>,
      << <<"Map", 2, 4>>, <<"Map", 8, 2>> >>,
      << <<"Map", 0, 4>>, <<"Map", 4, 4>> >> }

\* The program headers of the files: PT_LOAD headers at several addresses
\* with filesz < memsz, filesz = memsz, filesz > memsz, empty ones and one of
\* half the address space, and a header of another type.
Segs ==
    [type : {"PT_LOAD"}, paddr : {0, 1, 4, SysMod - 2},
     size : {<<1, 3>>, <<3, 3>>, <<2, 5>>, <<3, 1>>}]
    \cup {[type |-> "PT_LOAD", paddr |-> 0, size |-> <<0, 0>>],
          [type |-> "PT_LOAD", paddr |-> 4, size |-> <<SysMod \div 2, SysMod \div 2>>],
          [type |-> "PT_NOTE", paddr |-> 0, size |-> <<0, 0>>]}

\* The program header as Load reads it.
Prog(g) == [type |-> g.type, paddr |-> g.paddr, filesz |-> g.size[1], memsz |-> g.size[2]]

\* The ELF files: executables and shared objects with up to two program headers.
Files ==
    [type : {"ET_EXEC", "ET_DYN"}, entry : {0, 3}, arch : {"ZPU"},
     progs : {<<>>} \cup {<<Prog(g)>> : g \in Segs}
                    \cup {<<Prog(g), Prog(h)>> : g \in Segs, h \in Segs}]

InitLoad ==
    /\ bus = ZeroBus
    /\ mem = NewRAM
    /\ last = NoCall
    /\ nwrites = 0
    /\ nremaps = 0
    /\ writer = NoWriter
    /\ log = <<>>
    /\ zpu = NewZPU
    /\ \E script \in SysLayouts : sbus = PreMap(NewBus, script)
    /\ elf = NoLoad
    /\ nloads = 0
    /\ maplog = <<>>

\* alloc(bus, addr, size), with a size Load passes on (int64(p.Memsz) >= 0)
CallAlloc(addr, size) ==
    /\ last = NoCall
    /\ nloads < MaxLoads
    /\ 2 * size < SysMod
    /\ \E r \in {alloc(sbus, addr, size)} :
       /\ sbus' = r.bus
       /\ nloads' = nloads + 1
       /\ last' = Call("alloc", addr, NoMem, size, 0, 0, 0, NoMem, r.err)
       /\ UNCHANGED <<bus, mem, nwrites, nremaps, writer, log, zpu, elf, maplog>>

\* arch, entry, err := elf.Load(name, bus, autoAlloc)
CallLoad(f, autoAlloc) ==
    /\ last = NoCall
    /\ nloads < MaxLoads
    /\ \E r \in {Load(sbus, f, autoAlloc)} :
       /\ sbus' = r.bus
       /\ elf' = [file |-> f, auto |-> autoAlloc, arch |-> r.arch, entry |-> r.entry]
       /\ nloads' = nloads + 1
       /\ last' = Call("Load", 0, NoMem, r.at, 0, r.entry, 0, NoMem, r.err)
       /\ UNCHANGED <<bus, mem, nwrites, nremaps, writer, log, zpu, maplog>>

NextLoad ==
    \/ Return
    \/ nloads < MaxLoads /\ \E addr \in SysAddress, size \in SysAddress : CallAlloc(addr, size)
    \/ nloads < MaxLoads /\ \E f \in Files, autoAlloc \in BOOLEAN : CallLoad(f, autoAlloc)

SpecLoad == InitLoad /\ [][NextLoad]_vars

\* ------------------------------------------ the paged bus: calls of a caller

\* The page-aligned addresses Map is called with: the first pages and the
\* highest one.
MapAddrs == {0, PageSize, SysMod - PageSize}

\* The sizes of the memories mapped: one and two pages.
MapSizes == {PageSize, 2 * PageSize}

\* The widths of the sized accesses, in bytes.
SysWidths == {1, 2, 4}

\* b.Map(addr, mem.New(size), MemRAM)
CallSysMap(addr, size) ==
    /\ last = NoCall
    /\ Len(maplog) < MaxMaps
    /\ \E r \in {sysMap(New(sbus, size), addr, Len(sbus.heap) + 1)} :
       /\ sbus' = r.bus
       /\ maplog' = Append(maplog, <<addr, size>>)
       /\ last' = Call("SysMap", addr, Len(sbus.heap) + 1, size, 0, 0, 0, NoMem, r.err)
       /\ UNCHANGED <<bus, mem, nwrites, nremaps, writer, log, zpu, elf, nloads>>

\* b.Unmap(addr, n)
CallSysUnmap(addr, n) ==
    /\ last = NoCall
    /\ sbus' = Unmap(sbus, addr, addr, n)
    /\ last' = Call("SysUnmap", addr, NoMem, n, 0, 0, 0, NoMem, NoErr)
    /\ UNCHANGED <<bus, mem, nwrites, nremaps, writer, log, zpu, elf, nloads, maplog>>

\* m := b.Memory(addr)
CallSysMemory(addr) ==
    /\ last = NoCall
    /\ \E r \in {sysMemory(sbus, addr)} :
       /\ sbus' = r.bus
       /\ last' = Call("SysMemory", addr, NoMem, 0, 0, 0, 0, r.m, NoErr)
       /\ UNCHANGED <<bus, mem, nwrites, nremaps, writer, log, zpu, elf, nloads, maplog>>

\* v, err := b.ReadWLE(addr)
CallSysRead(addr, n) ==
    /\ last = NoCall
    /\ \E r \in {sysReadLE(sbus, addr, n)} :
       /\ sbus' = r.bus
       /\ last' = Call("SysRead", addr, NoMem, n, 0, r.v, 0, NoMem, r.err)
       /\ UNCHANGED <<bus, mem, nwrites, nremaps, writer, log, zpu, elf, nloads, maplog>>

\* err := b.WriteWLE(addr, v)
CallSysWrite(addr, n, v) ==
    /\ last = NoCall
    /\ \E r \in {sysWriteLE(sbus, addr, n, v)} :
       /\ r.bus.heap # sbus.heap => nwrites < MaxWrites
       /\ sbus' = r.bus
       /\ nwrites' = IF r.bus.heap # sbus.heap THEN nwrites + 1 ELSE nwrites
       /\ last' = Call("SysWrite", addr, NoMem, n, v, 0, 0, NoMem, r.err)
       /\ UNCHANGED <<bus, mem, nremaps, writer, log, zpu, elf, nloads, maplog>>

NextSys ==
    \/ Return
    \/ Len(maplog) < MaxMaps /\ \E addr \in MapAddrs, size \in MapSizes : CallSysMap(addr, size)
    \/ \E addr \in SysAddress, n \in 1 .. 2 : CallSysUnmap(addr, n)
    \/ \E addr \in SysAddress : CallSysMemory(addr)
    \/ \E addr \in SysAddress, n \in SysWidths : CallSysRead(addr, n)
    \/ \E addr \in SysAddress, n \in SysWidths : \E v \in WriteVals(n) : CallSysWrite(addr, n, v)

SpecSys == Init /\ [][NextSys]_vars

\* ------------------------------------------- the ZPU running (SpecStep)

\* The bus of the machine: three bytes of RAM at 0 for the program, and above
\* them eight bytes of big-endian RAM for the stack.
ProgramBus == MapAll(ZeroBus, << <<0, 3>> >>)

MachineBus == MapAll(ProgramBus, << <<3, 2>> >>)

\* The programs: every sequence of instructions that fills the program RAM.
Code == [1 .. RegionSize[3] -> 0 .. ByteMod - 1]

\* The two words stored in the stack RAM before the run.
StackWords == { <<0, 0>>, <<1, 2>> }

\* The machine after b.Map of the memories, the writes that store the program
\* and the stack words, z := zpu.New(&b) and z.Reset(); Reset is called when
\* both memories are mapped (SP is the end of the stack RAM) or before the
\* stack RAM is mapped (SP is its start, the two words are on the stack).
InitStep ==
    /\ bus = MachineBus
    /\ \E code \in Code, w \in StackWords :
          mem = [NewRAM EXCEPT ![3] = code,
                               ![2] = PutUint("BigEndian", w[1], 4) \o PutUint("BigEndian", w[2], 4)]
    /\ \E B \in {ProgramBus, MachineBus} : zpu = Reset(NewZPU, B)
    /\ last = NoCall
    /\ nwrites = 0
    /\ nremaps = 0
    /\ writer = NoWriter
    /\ log = <<>>
    /\ sbus = NewBus
    /\ elf = NoLoad
    /\ nloads = 0
    /\ maplog = <<>>

\* cycles := z.Step(n); log holds the calls the regions received during it
CallStepN(n) ==
    /\ last = NoCall
    /\ zpu.steps < MaxSteps
    /\ \E r \in {Step(zpu, bus, mem, n)} :
       /\ zpu' = [r.x.z EXCEPT !.steps = zpu.steps + 1]
       /\ mem' = r.x.mem
       /\ log' = r.x.log
       /\ last' = Call("StepN", zpu.pc, NoMem, n, 0, r.ret, 0, NoMem, r.x.err)
       /\ UNCHANGED <<bus, nwrites, nremaps, writer, sbus, elf, nloads, maplog>>

NextStep ==
    \/ Return
    \/ \E n \in 0 .. MaxCycles : CallStepN(n)

SpecStep == InitStep /\ [][NextStep]_vars

\* ----------------------------------------------------- claims: routing

\* The blocks of a bus in one sequence: the slice, then the preferred block.
AllBlocks(B) == B.b \o (IF B.p = NilBlock THEN <<>> ELSE <<B.p>>)

\* The address ranges [s1, e1] and [s2, e2] share an address.
Intersects(s1, e1, s2, e2) == s1 <= e2 /\ s2 <= e1

\* C1: for every mapped block b and every offset < b.region.Size(),
\* Memory(b.start + offset) returns (b.start, b.region), also on a bus that
\* holds a single mapped block.
C1_MemoryResolvesEveryBlock ==
    \A blk \in Blocks(bus) :
        \A off \in 0 .. Size(blk.m) - 1 :
            Memory(bus, AddrAdd(blk.s, off)) = [base |-> blk.s, m |-> blk.m]

\* C2: after any sequence of Map and Preferred calls the mapped blocks, the
\* preferred block and those of the slice, are pairwise non-overlapping and
\* each has start <= end.
C2_BlocksDisjoint ==
    LET all == AllBlocks(bus)
    IN /\ \A i \in 1 .. Len(all) : all[i].s <= all[i].e
       /\ \A i, j \in 1 .. Len(all) :
             i # j => ~Intersects(all[i].s, all[i].e, all[j].s, all[j].e)

\* C2's case: a full bus on which a Map has just failed, whose preferred block
\* was promoted by Preferred (it lies above the first block of the slice).
C2_Witness ==
    /\ NBlocks(bus) = MaxBlocks
    /\ last.op = "Map" /\ last.err = errOverlap
    /\ bus.p.s > bus.b[1].s

\* C4: for every address outside every mapped block, Memory returns base 0 and
\* the void region, whether the slice is empty or not.
C4_UnmappedMemoryIsZeroVoid ==
    \A a \in Address :
        ~Mapped(bus, a) => Memory(bus, a) = [base |-> 0, m |-> NoMem]

\* C9: Map(base, region) of a non-empty region whose range does not wrap
\* returns the overlap error if and only if [base, base + size - 1] intersects
\* a mapped block (of the slice or the preferred one); otherwise it succeeds
\* and every address of the range resolves to the new block.
C9_MapOverlapIff ==
    [][ (last'.op = "Map" /\ Size(last'.m) > 0
            /\ last'.addr + Size(last'.m) - 1 <= AddrMax)
        => LET s == last'.addr
               e == last'.addr + Size(last'.m) - 1
               hit == \E blk \in Blocks(bus) : Intersects(s, e, blk.s, blk.e)
           IN /\ (last'.err = errOverlap) <=> hit
              /\ hit => bus' = bus
              /\ ~hit =>
                    /\ last'.err = NoErr
                    /\ \A a \in s .. e :
                          /\ memory(bus', a) = [s |-> s, e |-> e, m |-> last'.m]
                          /\ Route(bus', a) = [s |-> s, e |-> e, m |-> last'.m] ]_vars

\* C9's case: a Map refused for a range that meets only the last of three
\* blocks in the slice.
C9_Witness ==
    /\ last.op = "Map" /\ last.err = errOverlap
    /\ Len(bus.b) = 3
    /\ LET s == last.addr
           e == last.addr + Size(last.m) - 1
       IN /\ e <= AddrMax
          /\ Intersects(s, e, bus.b[3].s, bus.b[3].e)
          /\ \A blk \in Blocks(bus) \ {bus.b[3]} : ~Intersects(s, e, blk.s, blk.e)

TestVals(n) == {0, Pattern(n), (ByteMod ^ n) - 1}

\* C3: for every address a outside every mapped block and every width, ReadW(a)
\* returns 0 with a bus error whose op is read and whose size is W/8, WriteW(a, v)
\* returns a bus error whose op is write and whose size is W/8, and neither
\* changes a region's bytes or the routing table; on the empty bus too.
C3_UnmappedAccessIsBusError ==
    [][ (last'.op \in {"Read", "Write"} /\ ~Mapped(bus, last'.addr))
        => /\ last'.err.kind = "ErrBus"
           /\ last'.err.op = (IF last'.op = "Read" THEN "opRead" ELSE "opWrite")
           /\ last'.err.sz = last'.n
           /\ last'.rv = 0
           /\ mem' = mem
           /\ bus' = bus ]_vars

\* C3's case: a write to an unmapped address of a bus that holds blocks in its
\* slice, made after a write has stored bytes.
C3_Witness ==
    /\ last.op = "Write" /\ last.err.kind = "ErrBus"
    /\ ~Mapped(bus, last.addr)
    /\ Len(bus.b) > 0
    /\ nwrites > 0

\* C5: a sized access never crosses a block boundary: when addr lies in block
\* b and addr + W/8 - 1 > b.end, ReadW/WriteW returns the page error, also when
\* the next addresses are mapped by a contiguous block, and no byte changes.
C5_NoAccessAcrossBlocks ==
    [][ (/\ last'.op \in {"Read", "Write"}
         /\ \E blk \in Blocks(bus) :
               contains(blk, last'.addr) /\ last'.addr + last'.n - 1 > blk.e)
        => /\ last'.err = errPage
           /\ last'.rv = 0
           /\ mem' = mem ]_vars

\* C5's case: a write refused in a block that is followed by a contiguous
\* block, after a write has stored bytes.
C5_Witness ==
    /\ last.op = "Write" /\ last.err = errPage
    /\ nwrites > 0
    /\ \E blk \in Blocks(bus) :
          /\ contains(blk, last.addr)
          /\ last.addr + last.n - 1 > blk.e
          /\ \A a \in last.addr .. last.addr + last.n - 1 : Mapped(bus, a)

\* C6: for every width, value and address a such that a .. a + W/8 - 1 lie in
\* one mapped RAM block, WriteW(a, v) succeeds and a ReadW(a) that follows it
\* succeeds and returns v: of the write just made, and, between calls, of
\* every write that could be made next.
C6_WriteReadRoundTrip ==
    LET InRAM(a, n) ==
            \E blk \in Blocks(bus) :
                Type(blk.m) = "MemRAM" /\ blk.s <= a /\ a + n - 1 <= blk.e
    IN /\ (last.op = "Write" /\ InRAM(last.addr, last.n))
             => /\ last.err = NoErr
                /\ BusRead(bus, mem, last.addr, last.n) = [v |-> last.v, err |-> NoErr]
       /\ last = NoCall
             => \A a \in Address, n \in Widths :
                   InRAM(a, n)
                   => \A v \in TestVals(n) :
                         LET w == BusWrite(bus, mem, a, n, v)
                         IN /\ w.err = NoErr
                            /\ BusRead(bus, w.mem, a, n) = [v |-> v, err |-> NoErr]

\* C6's case: an unaligned 64-bit write to big-endian RAM has succeeded and the
\* bus reads the value back.
C6_Witness ==
    /\ last.op = "Write" /\ last.err = NoErr
    /\ last.n = 8 /\ last.addr % 8 # 0
    /\ ByteOrder(last.m) = "BigEndian"
    /\ BusRead(bus, mem, last.addr, 8) = [v |-> last.v, err |-> NoErr]

\* C7: after WriteW(o, v) on a RAM region, Read8(o + k), k < W/8, returns byte k
\* of v from the least significant byte for a little-endian region and from
\* the most significant for a big-endian one; a narrower read at o returns the
\* low-order part of v on little-endian RAM and the high-order part on
\* big-endian RAM.
C7_ByteLayoutFollowsOrder ==
    LET little(m) == ByteOrder(m) = "LittleEndian"
        Laid(M, m, o, n, v) ==
            /\ \A k \in 0 .. n - 1 :
                  RegionRead(M, m, o + k, 1) =
                     [v |-> IF little(m) THEN ByteOf(v, k) ELSE ByteOf(v, n - 1 - k),
                      err |-> NoErr]
            /\ \A n2 \in Widths :
                  n2 < n =>
                     RegionRead(M, m, o, n2) =
                        [v |-> IF little(m) THEN v % (ByteMod ^ n2)
                               ELSE v \div (ByteMod ^ (n - n2)),
                         err |-> NoErr]
    IN /\ (last.op = "RegionWrite" /\ last.err = NoErr)
             => Laid(mem, last.m, last.addr, last.n, last.v)
       /\ last = NoCall
             => \A m \in Regions, n \in Widths :
                   \A o \in 0 .. Size(m) - n, v \in TestVals(n) :
                       LET w == RegionWrite(mem, m, o, n, v)
                       IN w.err = NoErr /\ Laid(w.mem, m, o, n, v)

\* C7's case: a 32-bit write to a big-endian region has stored the most
\* significant byte at the lowest offset and the least significant at the
\* highest.
C7_Witness ==
    /\ last.op = "RegionWrite" /\ last.err = NoErr /\ last.n = 4
    /\ ByteOrder(last.m) = "BigEndian"
    /\ mem[last.m][last.addr + 1] = ByteOf(last.v, 3)
    /\ mem[last.m][last.addr + 4] = ByteOf(last.v, 0)
    /\ ByteOf(last.v, 3) # ByteOf(last.v, 0)

\* C8: for a RAM region of size n, every ReadW/WriteW at an offset o with
\* o + W/8 > n, o >= n included, returns the page error (it neither succeeds
\* nor crashes) and leaves the bytes of the region unchanged.
C8_OutOfRangeIsPageError ==
    [][ (/\ last'.op \in {"RegionRead", "RegionWrite"}
         /\ last'.addr + last'.n > Size(last'.m))
        => /\ last'.err = errPage
           /\ last'.rv = 0
           /\ mem' = mem ]_vars

\* ------------------------------------------------------- claims: Remap

\* The blocks of B, the preferred block and those of the slice, share no
\* address pairwise.
NonOverlapping(B) ==
    LET all == AllBlocks(B)
    IN \A i, j \in 1 .. Len(all) :
          i # j => ~Intersects(all[i].s, all[i].e, all[j].s, all[j].e)

\* C11: whenever Map or Remap returns an error (overlap or overflow), the bus
\* is as before the call: the preferred block, the slice, every block's start,
\* end and region, and the bytes of every region are unchanged.
C11_FailedMapRemapChangesNothing ==
    [][ (last'.op \in {"Map", "Remap"} /\ last'.err # NoErr)
        => (bus' = bus /\ mem' = mem) ]_vars

\* C11's case: a Remap of a block of the slice with a larger region that
\* reaches the next block has returned the overlap error.
C11_Witness ==
    /\ last.op = "Remap" /\ last.err = errOverlap
    /\ ~contains(bus.p, last.addr)
    /\ findIdx(bus.b, last.addr) >= 0

\* C12: Remap replaces the block containing addr: for every mapped address
\* addr, in a block of the slice or in the preferred block, after
\* Remap(addr, m) returns without error Memory(addr) returns the new region m
\* and the sized accesses at addr are served by m (stated for the regions of
\* size > 0).
C12_RemapReplacesBlock ==
    [][ (/\ last'.op = "Remap" /\ last'.err = NoErr
         /\ Size(last'.m) > 0
         /\ Mapped(bus, last'.addr))
        => (/\ Memory(bus', last'.addr).m = last'.m
            /\ Route(bus', last'.addr).m = last'.m) ]_vars

\* C13: Remap preserves non-overlap: after any Remap(addr, m) that returns
\* without error, for any addr inside the replaced block and whether the
\* next-higher block is in the slice or is the preferred block, the mapped
\* blocks are still pairwise non-overlapping (a Remap whose new extent would
\* reach into another block returns the overlap error instead).
C13_RemapPreservesNonOverlap ==
    [][ (/\ last'.op = "Remap" /\ last'.err = NoErr
         /\ NonOverlapping(bus))
        => NonOverlapping(bus') ]_vars

\* C14: block shape: in every state reachable by Map, Remap and Preferred,
\* every mapped block satisfies end = start + region.Size() - 1 (in the
\* arithmetic of mirv.Address), so every address the bus routes to a block has
\* an offset smaller than the region's size.
C14_BlockShape ==
    \A blk \in Blocks(bus) :
        /\ blk.e = AddrAdd(blk.s, Size(blk.m) - 1)
        /\ \A a \in Address :
              contains(blk, a) => AddrSub(a, blk.s) < Size(blk.m)

\* ---------------------------------------------------- claims: Preferred

\* C15: Preferred(addr) promotes the right block: on a bus with any number of
\* mapped blocks and for every addr that lies in a mapped block, after
\* Preferred(addr) the preferred block is the block that contains addr.
C15_PreferredPromotesBlockOfAddr ==
    [][ (last'.op = "Preferred" /\ Mapped(bus, last'.addr))
        => contains(bus'.p, last'.addr) ]_vars

\* C16: Preferred is transparent: Preferred(x), for any x, leaves the set of
\* mapped blocks (preferred block plus slice) unchanged, so for every address
\* a the result of Memory(a), of every sized read and write at a, and of
\* MappedRange(kind) is the same as before the call.
C16_PreferredIsTransparent ==
    [][ last'.op = "Preferred"
        => (/\ Blocks(bus') = Blocks(bus)
            /\ NBlocks(bus') = NBlocks(bus)
            /\ \A a \in Address :
                  /\ Memory(bus', a) = Memory(bus, a)
                  /\ \A n \in Widths :
                        /\ BusRead(bus', mem, a, n) = BusRead(bus, mem, a, n)
                        /\ \A v \in WriteVals(n) :
                              BusWrite(bus', mem, a, n, v) = BusWrite(bus, mem, a, n, v)
            /\ \A t \in Types : MappedRange(bus', t) = MappedRange(bus, t)) ]_vars

\* C16's case: Preferred has swapped the preferred block with a block of a
\* slice of three, and not with the block of its address.
C16_Witness ==
    /\ last.op = "Preferred"
    /\ Len(bus.b) = 3
    /\ Mapped(bus, last.addr)
    /\ ~contains(bus.p, last.addr)

\* The slice is sorted strictly ascending by block start.
Sorted(bb) == \A i \in 1 .. Len(bb) - 1 : bb[i].s < bb[i + 1].s

\* C17: in every state reachable by Map, Remap and Preferred the slice is
\* sorted strictly ascending by block start, and Preferred, on its shift-left
\* and shift-right paths alike, leaves the slice of the same length.
C17_SliceSorted ==
    [][ /\ Sorted(bus.b)
        /\ Sorted(bus'.b)
        /\ last'.op = "Preferred" => Len(bus'.b) = Len(bus.b) ]_vars

\* C17's case: after a Remap has changed the bus, Preferred has left the
\* preferred block between two blocks of a slice of three: the old preferred
\* block, the lowest of the bus, was shifted into the slice.
C17_Witness ==
    /\ last.op = "Preferred"
    /\ nremaps = 1
    /\ Len(bus.b) = 3
    /\ bus.b[1].s < bus.p.s
    /\ bus.p.s < bus.b[3].s

\* C18: in every reachable bus state the preferred block, when present, does
\* not also appear in the slice, and no block appears twice in the slice.
C18_NoDuplicateBlock ==
    /\ bus.p # NilBlock => \A k \in 1 .. Len(bus.b) : bus.b[k] # bus.p
    /\ \A i, j \in 1 .. Len(bus.b) : i # j => bus.b[i] # bus.b[j]

\* The *block the preferred slot holds, named by its start: no operation
\* changes the start of a block, and no two blocks of a bus have the same.
PreferredSlot(B) == IF B.p = NilBlock THEN Null ELSE B.p.s

\* C19: once a preferred block is set, the preferred slot changes only through
\* Preferred(addr) with addr in a mapped block other than the preferred one:
\* Map, Remap, Memory, MappedRange, the sized reads and writes, the Writer's
\* writes and Preferred on an unmapped address leave the preferred slot
\* unchanged, and the last one leaves the whole bus unchanged. (Remap assigns
\* to fields of the *block it found in the slice, never to b.p: the slot keeps
\* its block; for the other operations the block's fields are unchanged too.)
C19_PreferredSlotChangesOnlyByPreferred ==
    [][ bus.p # NilBlock
        => (/\ PreferredSlot(bus') # PreferredSlot(bus)
               => (/\ last'.op = "Preferred"
                   /\ Mapped(bus, last'.addr)
                   /\ ~contains(bus.p, last'.addr))
            /\ last'.op \notin {"Preferred", "Remap"} => bus'.p = bus.p
            /\ (last'.op = "Preferred" /\ ~Mapped(bus, last'.addr))
               => bus' = bus) ]_vars

\* C19's case: a Map has added a block to a bus whose preferred block is not
\* the lowest one (it was set by Preferred), after a Writer's write has stored
\* bytes.
C19_Witness ==
    /\ last.op = "Map" /\ last.err = NoErr
    /\ nwrites > 0
    /\ Len(bus.b) = 3
    /\ bus.b[1].s < bus.p.s
    /\ bus.p.s < bus.b[3].s

OfKind(B, t) == {blk \in Blocks(B) : Type(blk.m) = t}

\* C21: MappedRange(kind) returns (min start, max end + 1 modulo the address
\* width) over all mapped blocks of that kind, the preferred block included,
\* and the no-mapping error exactly when no mapped block has that kind; blocks
\* of other kinds do not influence the result, and high is 0 when a block of
\* the kind covers the highest address.
C21_MappedRangeIsMinMax ==
    \A t \in Types :
        LET blks == OfKind(bus, t)
            r == MappedRange(bus, t)
        IN IF blks = {}
           THEN r = [low |-> 0, high |-> 0, err |-> errNoMemoryMap]
           ELSE /\ r.err = NoErr
                /\ \E blk \in blks : r.low = blk.s
                /\ \A blk \in blks : r.low <= blk.s
                /\ \E blk \in blks : r.high = (blk.e + 1) % AddrMod
                /\ \A blk \in blks : \E top \in blks : top.e >= blk.e /\ r.high = (top.e + 1) % AddrMod
                /\ (\E blk \in blks : blk.e = AddrMax) => r.high = 0

\* C21's case: MappedRange has returned high 0 for a kind whose highest block
\* ends at the highest address, on a bus whose preferred block is of that kind
\* and holds the lowest start, with a block of the other kind in between.
C21_Witness ==
    /\ last.op = "MappedRange" /\ last.err = NoErr
    /\ last.rv = 0
    /\ last.base = bus.p.s
    /\ \E blk \in Blocks(bus) : Type(blk.m) # Type(bus.p.m) /\ blk.s > bus.p.s
    /\ \E blk \in Blocks(bus) : Type(blk.m) = Type(bus.p.m) /\ blk.e = AddrMax

\* ------------------------------------------------------ claims: aliasing

\* C22: aliasing happens exactly through shared region instances: when one
\* region instance is mapped at two bases b1 and b2, a write at b1 + k is
\* observed by a read at b2 + k; when two distinct regions are mapped at
\* non-overlapping ranges, a write through one block changes no byte read
\* through the other.
C22_AliasingOnlyBySharedRegion ==
    [][ (last'.op = "Write" /\ last'.err = NoErr)
        => LET b1 == Route(bus, last'.addr)
               k == last'.addr - b1.s
           IN \A b2 \in Blocks(bus) :
                 IF b2.m = b1.m
                 THEN BusRead(bus, mem', b2.s + k, last'.n) = [v |-> last'.v, err |-> NoErr]
                 ELSE \A j \in 0 .. Size(b2.m) - 1 :
                         BusRead(bus, mem', b2.s + j, 1) = BusRead(bus, mem, b2.s + j, 1) ]_vars

\* C22's case: a 16-bit write through one mapping of a region is read back
\* through another mapping of the same region.
C22_Witness ==
    /\ last.op = "Write" /\ last.err = NoErr /\ last.n = 2
    /\ \E b1, b2 \in Blocks(bus) :
          /\ b1 # b2 /\ b1.m = b2.m
          /\ contains(b1, last.addr)
          /\ BusRead(bus, mem, b2.s + (last.addr - b1.s), 2) = [v |-> last.v, err |-> NoErr]
          /\ last.v # 0

\* ------------------------------------------------------- claims: Writer

\* Address a is mapped to a region of type RAM.
RAMAt(B, a) == \E blk \in Blocks(B) : contains(blk, a) /\ Type(blk.m) = "MemRAM"

\* No region instance is mapped by two blocks that serve addresses of lo .. hi.
NoAliasIn(B, lo, hi) ==
    \A a1, a2 \in lo .. hi : Route(B, a1).m = Route(B, a2).m => Route(B, a1) = Route(B, a2)

\* C23: the Writer spans contiguous blocks: if every address of
\* [addr, addr + N) is mapped to RAM, by one block or by several contiguous
\* ones (preferred or in the slice), writing N bytes through Writer(addr), in
\* one Write call or split over several, stores byte i at addr + i for every
\* i < N and reports N bytes written with no error. (The bytes are read back
\* where no region instance is mapped twice under the range.)
C23_WriterSpansBlocks ==
    [][ (/\ last'.op = "WriterWrite"
         /\ last'.addr + last'.n - 1 <= AddrMax
         /\ \A a \in last'.addr .. last'.addr + last'.n - 1 : RAMAt(bus, a))
        => LET a0 == last'.addr
               N == last'.n
               all == writer'.data
           IN /\ last'.err = NoErr
              /\ last'.rv = N
              /\ writer'.addr = AddrAdd(a0, N)
              /\ NoAliasIn(bus, a0, a0 + N - 1)
                 => \A i \in 0 .. N - 1 :
                       BusRead(bus, mem', a0 + i, 1) = [v |-> writer'.p[i + 1], err |-> NoErr]
              /\ (writer.data # <<>> /\ NoAliasIn(bus, writer.start, a0 + N - 1))
                 => /\ Len(all) = Len(writer.data) + N
                    /\ \A i \in 0 .. Len(all) - 1 :
                          BusRead(bus, mem', writer.start + i, 1) = [v |-> all[i + 1], err |-> NoErr] ]_vars

\* C23's case: the second Write call on a Writer has stored four bytes across
\* the boundary of two contiguous blocks of distinct RAM regions, after a first
\* call that stored bytes too.
C23_Witness ==
    /\ last.op = "WriterWrite" /\ last.err = NoErr /\ last.rv = 4
    /\ writer.calls = 2 /\ Len(writer.data) > 4
    /\ Route(bus, last.addr) # Route(bus, last.addr + 3)
    /\ Route(bus, last.addr).m # Route(bus, last.addr + 3).m
    /\ \A i \in 0 .. Len(writer.data) - 1 :
          BusRead(bus, mem, writer.start + i, 1) = [v |-> writer.data[i + 1], err |-> NoErr]

C25_OneRegionCallPerAccess ==
    [][ (last'.op \in {"Read", "Write"} /\ Mapped(bus, last'.addr))
        => \E blk \in Blocks(bus) :
              /\ contains(blk, last'.addr)
              /\ log' = Append(log, [m |-> blk.m,
                                      op |-> IF last'.op = "Read" THEN "opRead" ELSE "opWrite",
                                      n |-> last'.n,
                                      off |-> last'.addr - blk.s])
              /\ last'.op = "Read"
                 => [v |-> last'.rv, err |-> last'.err]
                       = RegionRead(mem, blk.m, last'.addr - blk.s, last'.n) ]_vars

\* C25's case: a region has received a read after a write to the same offset
\* through another mapping, in that order, and the read returned the value
\* just written.
C25_Witness ==
    /\ Len(log) = 2
    /\ last.op = "Read" /\ last.err = NoErr /\ last.rv # 0
    /\ log[1].op = "opWrite" /\ log[2].op = "opRead"
    /\ log[1].m = log[2].m /\ log[1].off = log[2].off
    /\ \E b1, b2 \in Blocks(bus) : b1 # b2 /\ b1.m = b2.m /\ contains(b2, last.addr)

\* ------------------------------------------------------- claims: ZPU

\* C30: Reset sets PC to 0, clears the immediate-continuation flag and the
\* halted flag, and sets SP to the high (exclusive) bound MappedRange reports
\* for RAM, one past the highest mapped RAM address (0 after the highest
\* address); blocks of kind IO do not influence SP.
C30_ResetState ==
    [][ last'.op = "Reset"
        => LET ram == OfKind(bus, "MemRAM")
           IN /\ zpu'.pc = 0
              /\ ~zpu'.idim
              /\ ~zpu'.halted
              /\ zpu'.sp = MappedRange(bus, "MemRAM").high
              /\ last'.rv = zpu'.sp
              /\ ram # {} => \E top \in ram :
                                /\ \A blk \in ram : blk.e <= top.e
                                /\ zpu'.sp = (top.e + 1) % AddrMod ]_vars

\* C30's case: Reset has returned after an IM instruction had set the
\* immediate-continuation flag and moved PC and SP, on a bus whose IO block
\* lies above its RAM.
C30_Witness ==
    /\ last.op = "Reset"
    /\ zpu.steps > 0
    /\ ~zpu.idim /\ zpu.pc = 0
    /\ \E io \in OfKind(bus, "MemIO") : io.s >= zpu.sp /\ zpu.sp > 0
    /\ \E m \in Regions : mem[m] # NewRAM[m] /\ Len(SelectSeq(mem[m], LAMBDA x : x # 0)) > 1

\* ---------------------------------------------------- claims: loader

\* The range [addr, addr + size) does not pass the highest address.
InSpace(addr, size) == addr + size <= SysMod

\* The addresses of [addr, addr + size).
Range(addr, size) == {a \in SysAddress : addr <= a /\ a < addr + size}

\* C26: alloc never maps over an already mapped page and leaves no hole: after
\* alloc(bus, addr, size) every page that intersects [addr, addr + size) is
\* mapped, every page mapped before the call resolves to the same memory as
\* before, and the call never fails with 'Address already mapped', whatever
\* pages are mapped inside, at the start or at the end of the range.
C26_AllocFillsHoles ==
    [][ last'.op = "alloc"
        => /\ last'.err # panicMapped
           /\ \A t \in Tags :
                sbus.pages[t] # NilPage
                => /\ sbus'.pages[t] = sbus.pages[t]
                   /\ sysMemory(sbus', t * PageSize).m = sysMemory(sbus, t * PageSize).m
           /\ \A k \in 1 .. Len(sbus.heap) : sbus'.heap[k] = sbus.heap[k]
           /\ InSpace(last'.addr, last'.n)
              => /\ last'.err = NoErr
                 /\ \A a \in Range(last'.addr, last'.n) :
                      /\ sbus'.pages[tag(a)] # NilPage
                      /\ sysMemory(sbus', a).m.len # 0 ]_vars

\* C26's case: alloc has returned on a range with a mapped page in its middle
\* and has mapped a new memory on each side of it.
C26_Witness ==
    /\ last.op = "alloc" /\ last.err = NoErr
    /\ Len(sbus.heap) = 3
    /\ \E t \in Tags :
         /\ Range(last.addr, last.n) \cap {a \in SysAddress : tag(a) = t + 1} # {}
         /\ sbus.pages[t].m = 2 /\ sbus.pages[t + 1].m = 1 /\ sbus.pages[t + 2].m = 3

\* The addresses a writer made at addr passes in size bytes.
Written(addr, size) == {sysAdd(addr, k) : k \in 0 .. size - 1}

\* A program header of f after the header i writes into the range of header i.
Overwritten(f, i) ==
    \E j \in i + 1 .. Len(f.progs) :
        Range(f.progs[i].paddr, f.progs[i].memsz)
            \cap Written(f.progs[j].paddr, f.progs[j].filesz + f.progs[j].memsz) # {}

\* C27: after Load succeeds, for a PT_LOAD segment whose range
\* [paddr, paddr + memsz) is mapped and not overwritten by a later segment,
\* the guest bytes paddr .. paddr+filesz-1 are the segment's file bytes in
\* order and the guest bytes paddr+filesz .. paddr+memsz-1 are zero.
C27_SegmentBytesLoaded ==
    [][ (last'.op = "Load" /\ last'.err = NoErr)
        => \A i \in 1 .. Len(elf'.file.progs) :
              LET p == elf'.file.progs[i]
              IN (/\ InSpace(p.paddr, p.memsz)
                  /\ p.filesz <= p.memsz
                  /\ ~Overwritten(elf'.file, i)
                  /\ \A a \in Range(p.paddr, p.memsz) : sbus'.pages[tag(a)] # NilPage)
                 => \A a \in Range(p.paddr, p.memsz) :
                       sysRead8(sbus', a)
                         = [v |-> IF a - p.paddr < p.filesz
                                  THEN SegData(p)[a - p.paddr + 1] ELSE 0,
                            err |-> NoErr] ]_vars

\* C28: Load rejects every ELF file whose type is not ET_EXEC: it returns an
\* error, before allocating, mapping or writing anything, so the bus (its
\* mappings and the memory contents) is unchanged.
C28_NonExecRejected ==
    [][ (last'.op = "Load" /\ elf'.file.type # "ET_EXEC")
        => /\ last'.err = errType
           /\ sbus' = sbus ]_vars

\* C28's case: Load has returned for a shared object with a program header
\* that has file bytes, auto-allocation on.
C28_Witness ==
    /\ last.op = "Load" /\ last.err = errType
    /\ elf.file.type = "ET_DYN" /\ elf.auto
    /\ Len(elf.file.progs) = 2
    /\ elf.file.progs[1].type = "PT_LOAD" /\ elf.file.progs[1].filesz > 0

\* The file f with its first n program headers only.
Truncated(f, n) == [f EXCEPT !.progs = SubSeq(f.progs, 1, n)]

C35_FindIdxIndexesSequence ==
    last = NoCall =>
        \A a \in Address :
            LET i == findIdx(bus.b, a)
            IN IF \E k \in 1 .. Len(bus.b) : contains(bus.b[k], a)
               THEN /\ i \in 0 .. Len(bus.b) - 1
                    /\ contains(bus.b[i + 1], a)
                    /\ bus.b[i + 1] = find(bus.b, a)
               ELSE i = -1

\* C36: the bus error of a sized access at an unmapped address a records a
\* itself as its address, with the operation and the width, for every a
\* including 0 and the highest address.
C36_UnmappedErrorRecordsAddress ==
    [][ (last'.op \in {"Read", "Write"} /\ ~Mapped(bus, last'.addr))
        => last'.err = errBus(IF last'.op = "Read" THEN "opRead" ELSE "opWrite",
                              last'.n, last'.addr) ]_vars

\* --------------------------------------------------- claims: the paged bus

\* The bus B with the cache NewBus makes: every lookup goes to the page table.
Flushed(B) == [B EXCEPT !.cache = NewBus.cache]

\* C39: lookup-cache coherence of the paged bus: after any sequence of Map,
\* Unmap, Memory and sized read and write calls, Memory(addr) returns the
\* memory the page table records for addr's page, or the zero-sized void
\* memory when the page is not mapped; sized accesses give the results of the
\* same calls on a bus with an empty cache; every cache entry in use holds
\* the memory the page table records for its tag, so none outlives the Unmap
\* of its page or shadows a later Map of the page.
C39_CacheCoherent ==
    [][ /\ last'.op = "SysMemory"
           => /\ last'.rm = sbus.pages[tag(last'.addr)]
              /\ sbus'.pages = sbus.pages
              /\ (sbus.pages[tag(last'.addr)] = NilPage => last'.rm.len = 0)
        /\ last'.op = "SysRead"
           => \E r \in {sysReadLE(Flushed(sbus), last'.addr, last'.n)} :
                 last'.rv = r.v /\ last'.err = r.err
        /\ last'.op = "SysWrite"
           => \E r \in {sysWriteLE(Flushed(sbus), last'.addr, last'.n, last'.v)} :
                 sbus'.heap = r.bus.heap /\ last'.err = r.err
        /\ \A i \in 0 .. CacheSize - 1 :
              sbus'.cache[i].tag # NoTag
              => /\ sbus'.cache[i].tag % CacheSize = i
                 /\ sbus'.cache[i].m # NilPage
                 /\ sbus'.cache[i].m = sbus'.pages[sbus'.cache[i].tag] ]_vars

\* C39's case: Memory(addr) has returned the second memory, mapped at the
\* address where the first memory was mapped, written through the bus (and so
\* cached) and unmapped.
C39_Witness ==
    /\ last.op = "SysMemory" /\ last.rm.m = 2
    /\ Len(maplog) = 2 /\ maplog[1][1] = maplog[2][1]
    /\ tag(last.addr) = tag(maplog[1][1])
    /\ \E k \in 1 .. Len(sbus.heap[1]) : sbus.heap[1][k] # 0
    /\ sbus.cache[tag(last.addr) % CacheSize] = [tag |-> tag(last.addr), m |-> last.rm]

\* C40: in the paged bus with page size PageSize, a sized read or write whose
\* bytes span two pages fails with a bus error and changes no memory, on
\* every page of a mapped region of several pages, its first page included.
C40_CrossPageAccessFails ==
    [][ (/\ last'.op \in {"SysRead", "SysWrite"}
         /\ (last'.addr % PageSize) + last'.n > PageSize)
        => /\ last'.err = errBus(IF last'.op = "SysRead" THEN "opRead" ELSE "opWrite",
                                 last'.n, last'.addr)
           /\ last'.rv = 0
           /\ sbus'.heap = sbus.heap ]_vars

\* ---------------------------------------------------- claims: ZPU Step

\* The bus accesses of a Step call: log holds one region call per access.
\* Fetches are the 8-bit reads, word accesses the 32-bit reads and writes.
Fetches(l) == Cardinality({k \in 1 .. Len(l) : l[k].n = 1})

\* The region call c fails on the region bytes M.
AccessFails(c, M) ==
    IF c.op = "opRead" THEN RegionRead(M, c.m, c.off, c.n).err # NoErr
    ELSE RegionWrite(M, c.m, c.off, c.n, 0).err # NoErr

\* The last bus access of the Step call that has just ended failed.
StepHitBusError(l, M) == Len(l) > 0 /\ AccessFails(l[Len(l)], M)

\* C31: if a bus access fails during Step (the opcode fetch or a 32-bit stack
\* access), Step returns normally to its caller, with the cycle count
\* consumed up to and including the failing instruction.
C31_BusErrorEndsStepNormally ==
    [][ (last'.op = "StepN" /\ StepHitBusError(log', mem'))
        => /\ last'.err = NoErr
           /\ last'.rv = Fetches(log') ]_vars

\* C32: when the fetched opcode is the breakpoint, Step returns at once with
\* the number of instructions completed before it in this call, and PC, SP
\* and memory are as these instructions left them (PC addresses the
\* breakpoint); a Step(n) call made with PC at a breakpoint returns 0 without
\* changing PC, SP or memory, as the call that follows a stop at a breakpoint.
C32_BreakPointStops ==
    [][ /\ (last'.op = "StepN" /\ last'.err = NoErr /\ last'.rv < last'.n)
           => \E r \in {Step(zpu, bus, mem, last'.rv)} :
                 /\ r.x.err = NoErr /\ r.ret = last'.rv
                 /\ zpu'.pc = r.x.z.pc /\ zpu'.sp = r.x.z.sp /\ mem' = r.x.mem
                 /\ Fetches(log') = last'.rv + 1
                 /\ BusRead(bus, mem', zpu'.pc, 1) = [v |-> opBreakPoint, err |-> NoErr]
        /\ (last'.op = "StepN" /\ BusRead(bus, mem, zpu.pc, 1) = [v |-> opBreakPoint, err |-> NoErr])
           => /\ last'.err = NoErr /\ last'.rv = 0
              /\ zpu'.pc = zpu.pc /\ zpu'.sp = zpu.sp /\ mem' = mem ]_vars

\* C32's case: a second Step call, with a count above 0, has returned 0 at a
\* breakpoint that the first call had reached by executing instructions which
\* moved PC and SP.
C32_Witness ==
    /\ last.op = "StepN" /\ last.n > 0 /\ last.rv = 0 /\ last.err = NoErr
    /\ zpu.steps = 2 /\ zpu.pc > 0 /\ zpu.sp \notin {Reset(NewZPU, ProgramBus).sp, Reset(NewZPU, MachineBus).sp}
    /\ Len(log) = 1
    /\ BusRead(bus, mem, zpu.pc, 1).v = opBreakPoint

\* C33: Step(n) terminates for every n, executes at most n instructions and
\* returns the number of instructions it executed: the result is at most n,
\* and it equals n unless a breakpoint opcode was fetched.
C33_StepBudget ==
    [][ last'.op = "StepN"
        => /\ Fetches(log') <= last'.n
           /\ last'.err = NoErr
              => /\ last'.rv <= last'.n
                 /\ \/ last'.rv = last'.n /\ Fetches(log') = last'.n
                    \/ /\ Fetches(log') = last'.rv + 1
                       /\ BusRead(bus, mem', zpu'.pc, 1) = [v |-> opBreakPoint, err |-> NoErr] ]_vars

\* C33's case: the first Step call has used its whole count, the largest one,
\* in a program that jumps back (PC is below the count).
C33_Witness ==
    /\ last.op = "StepN" /\ last.err = NoErr
    /\ last.n = MaxCycles /\ last.rv = MaxCycles
    /\ zpu.steps = 1 /\ last.addr = 0 /\ zpu.pc < 2
    /\ Fetches(log) = MaxCycles

\* The words pushed in the checks of push and pop.
PushVals == {0, 1, WordMod - 1}

\* C34: ZPU stack discipline: push(v) first decrements SP by 4 and then
\* writes v as a 32-bit word at the new SP; pop reads the 32-bit word at SP
\* and then increments SP by 4; hence push(v) followed by pop returns v and
\* restores SP. Stated for push and pop on the State before every Step call,
\* and for the Step(2) calls that execute PUSHSP and then POPPC.
C34_StackDiscipline ==
    [][ last'.op = "StepN"
        => /\ \A v \in PushVals :
                 \E X1 \in {push(Exec(zpu, mem), bus, v)} :
                    /\ X1.z.sp = AddrSub(zpu.sp, 4)
                    /\ X1.log = RegionCalls(bus, "opWrite", AddrSub(zpu.sp, 4), 4)
                    /\ X1.err = NoErr
                       => /\ BusRead(bus, X1.mem, X1.z.sp, 4) = [v |-> v, err |-> NoErr]
                          /\ \E r \in {pop([X1 EXCEPT !.log = <<>>], bus)} :
                                /\ r.x.err = NoErr /\ r.v = v
                                /\ r.x.z.sp = zpu.sp
                                /\ r.x.log = RegionCalls(bus, "opRead", X1.z.sp, 4)
           /\ \E r \in {pop(Exec(zpu, mem), bus)} :
                 /\ r.x.log = RegionCalls(bus, "opRead", zpu.sp, 4)
                 /\ r.x.mem = mem
                 /\ r.x.err = NoErr
                    => /\ BusRead(bus, mem, zpu.sp, 4) = [v |-> r.v, err |-> NoErr]
                       /\ r.x.z.sp = AddrAdd(zpu.sp, 4)
           /\ (/\ last'.n = 2 /\ last'.rv = 2 /\ last'.err = NoErr
               /\ BusRead(bus, mem, zpu.pc, 1).v = opPushSP
               /\ BusRead(bus, mem', AddrAdd(zpu.pc, 1), 1).v = opPopPC)
              => /\ zpu'.pc = zpu.sp /\ zpu'.sp = zpu.sp
                 /\ log' = RegionCalls(bus, "opRead", zpu.pc, 1)
                           \o RegionCalls(bus, "opWrite", AddrSub(zpu.sp, 4), 4)
                           \o RegionCalls(bus, "opRead", AddrAdd(zpu.pc, 1), 1)
                           \o RegionCalls(bus, "opRead", AddrSub(zpu.sp, 4), 4) ]_vars

\* C34's case: a Step(2) call has executed PUSHSP and POPPC: the word pushed,
\* the old SP, was written below it and read back into PC, and SP is restored.
C34_Witness ==
    /\ last.op = "StepN" /\ last.n = 2 /\ last.rv = 2 /\ last.err = NoErr
    /\ Len(log) = 4
    /\ log[2].op = "opWrite" /\ log[2].n = 4
    /\ log[4].op = "opRead" /\ log[4].n = 4 /\ log[4].off = log[2].off
    /\ zpu.pc = zpu.sp
    /\ BusRead(bus, mem, AddrSub(zpu.sp, 4), 4).v = zpu.sp

\* The 32-bit accesses the instruction fetched at l[k] has made: the entries
\* after the fetch and before the next one.
WordAccesses(l, k) ==
    Cardinality({j \in k + 1 .. Len(l) : \A i \in k + 1 .. j : l[i].n = 4})

\* C37: every executed ZPU instruction performs exactly one 8-bit fetch, at
\* PC, and at most two 32-bit bus accesses (reads plus writes), for every
\* opcode, add included.
C37_AtMostTwoWordAccesses ==
    [][ last'.op = "StepN"
        => /\ last'.n > 0 => /\ Len(log') > 0
                             /\ <<log'[1]>> = RegionCalls(bus, "opRead", zpu.pc, 1)
           /\ \A k \in 1 .. Len(log') :
                 log'[k].n = 1 => WordAccesses(log', k) <= 2 ]_vars

\* C38: ZPU immediate sequences: the first IM opcode after a non-IM
\* instruction pushes its operand sign-extended to 32 bits (SP decreases by
\* 4); each immediately following IM replaces the top of stack with
\* (TOS << 7) | operand and leaves SP unchanged; the continuation flag is
\* true exactly when the instruction before was an IM, and every IM advances
\* PC by 1. Stated for the Step(1) calls that do not panic; insn is the
\* opcode at PC.
C38_ImmediateSequences ==
    [][ (last'.op = "StepN" /\ last'.n = 1 /\ last'.err = NoErr)
        => \E insn \in {BusRead(bus, mem, zpu.pc, 1).v} :
              /\ zpu'.idim = (insn >= opIM)
              /\ (insn >= opIM /\ ~zpu.idim)
                 => /\ zpu'.sp = AddrSub(zpu.sp, 4)
                    /\ BusRead(bus, mem', zpu'.sp, 4).v = SignExtend(insn)
                    /\ zpu'.pc = AddrAdd(zpu.pc, 1)
                    /\ last'.rv = 1
              /\ (insn >= opIM /\ zpu.idim)
                 => /\ zpu'.sp = zpu.sp
                    /\ BusRead(bus, mem', zpu.sp, 4).v
                         = (BusRead(bus, mem, zpu.sp, 4).v * IMRange + (insn - opIM)) % WordMod
                    /\ zpu'.pc = AddrAdd(zpu.pc, 1)
                    /\ last'.rv = 1 ]_vars

\* C38's case: the second of two Step(1) calls has executed an IM that
\* follows an IM: it has read the top of stack and written it back, shifted
\* (the word is no longer a bare operand), with SP where the first IM left it.
C38_Witness ==
    /\ last.op = "StepN" /\ last.n = 1 /\ last.rv = 1 /\ last.err = NoErr
    /\ zpu.steps = 2 /\ zpu.idim /\ zpu.pc = 2
    /\ Len(log) = 3 /\ log[2].op = "opRead" /\ log[3].op = "opWrite"
    /\ log[2].off = log[3].off
    /\ BusRead(bus, mem, zpu.sp, 4).v >= IMRange
    /\ BusRead(bus, mem, zpu.sp, 4).v < WordMod - IMRange

====
